---- MODULE Spec2Model ----
(***************************************************************************)
(* A model of the OneDrive client's in-memory tree cache                   *)
(* (src/lib/msobject_info.py) and of the delta synchronisation that        *)
(* reconciles it with the remote change feed (src/lib/shell_helper.py).    *)
(*                                                                         *)
(* Python objects have identity: the model keeps a heap of instances       *)
(* addressed by naturals (0 is None).  DictMsObject maps a remote id to    *)
(* the address of the registered instance.  An exception raised inside a   *)
(* handler keeps the mutations made before it: every operator threads a    *)
(* cache record [heap, dict, err] and stops working once err is set.       *)
(***************************************************************************)
EXTENDS Integers, Sequences, FiniteSets, TLC

\* ------------------------------------------------------------------ bounds
\* Number of foreground commands and synchronisation cycles in one run.
MaxOps == 2
\* Number of change-feed items fetched by one synchronisation cycle.
MaxBatch == 2
\* Largest size a remote descriptor reports.
MaxSize == 1
\* Largest childCount a remote folder descriptor reports.
MaxChildCount == 2
\* Number of entries on one page of a children listing.
MaxPageItems == 1

\* --------------------------------------------------------- remote universe
ROOT_ID == "root"
ROOT_NAME == "root"
FolderIds == {"A"}
FileIds == {"X", "Y"}
OtherIds == {"P"}
Ids == {ROOT_ID} \cup FolderIds \cup FileIds \cup OtherIds
Names == {"a", "b"}
Kinds == {"folder", "file", "other"}
\* The kind of a remote item never changes: 'folder', 'file' or 'package' facet.
KindOf(id) ==
  IF id \in FolderIds \cup {ROOT_ID} THEN "folder"
  ELSE IF id \in FileIds THEN "file" ELSE "other"
Sizes == 1..MaxSize
ChildCounts == 0..MaxChildCount
\* Server timestamps and content hashes are opaque values.
Stamps == {"t1", "t2"}
Hashes == {"h1", "h2", "None"}
\* utc_dt_now(): the local clock, distinct from every server timestamp.
NOW == "now"
\* default of max_retrieved_children
DEFAULT_MAX_CHILDREN == 200
\* Continuation links of a paginated listing are opaque (0 is None).
Links == {1}

None == 0

VARIABLES
  heap,        \* Seq of instances; heap[a] is the object at address a
  dictmap,     \* DictMsObject.__dict_already_discovered_object: id -> address
  fg,          \* position of the foreground handler holding global_lock
  nops,        \* number of commands and cycles started
  last,        \* the last handler that ran, its arguments and outcome
  scd          \* ServerCheckDelta, its loop thread, the shell thread, the lock

vars == <<heap, dictmap, fg, nops, last, scd>>

\* ------------------------------------------------------------------ objects
EmptyCh == [k \in Kinds |-> <<>>]
EmptyDc == [k \in Kinds |-> [n \in Names |-> None]]

\* A heap cell no instance lives in.
FreeObj ==
  [kind |-> "free", ms_id |-> "", name |-> "", size |-> 0, parent |-> None,
   is_root |-> FALSE, child_count |-> 0, lmdt |-> "", cdt |-> "",
   qxh |-> "", sha1hash |-> "", status |-> "none", next_link |-> None,
   ch |-> EmptyCh, dc |-> EmptyDc, parent_path |-> <<>>]

\* MsObject.__init__ / MsFolderInfo.__init__ / MsFileInfo.__init__ /
\* MsOtherInfo.__init__ from a remote descriptor d.
NewObj(d, parent, is_root) ==
  [kind |-> d.kind, ms_id |-> d.id, name |-> d.name, size |-> d.size,
   parent |-> parent, is_root |-> is_root,
   child_count |-> d.childCount, lmdt |-> d.lmdt, cdt |-> d.cdt,
   qxh |-> d.qxh, sha1hash |-> d.sha1hash,
   status |-> "none", next_link |-> None,
   ch |-> EmptyCh, dc |-> EmptyDc, parent_path |-> d.path]

Range(s) == {s[i] : i \in 1..Len(s)}

\* list.remove(x): drops the first occurrence.
RECURSIVE RemoveFirst(_, _)
RemoveFirst(s, x) ==
  IF s = <<>> THEN <<>>
  ELSE IF Head(s) = x THEN Tail(s)
  ELSE <<Head(s)>> \o RemoveFirst(Tail(s), x)

Err(c) == [c EXCEPT !.err = TRUE]

\* A new instance gets the first free cell of the heap.
AllocAddr(c) ==
  LET free == {a \in 1..Len(c.heap) : c.heap[a].kind = "free"} IN
  IF free = {} THEN Len(c.heap) + 1
  ELSE CHOOSE a \in free : \A b \in free : a <= b

Alloc(c, obj) ==
  LET a == AllocAddr(c) IN
  IF a > Len(c.heap) THEN [c EXCEPT !.heap = Append(@, obj)]
  ELSE [c EXCEPT !.heap[a] = obj]

\* ------------------------------------------------------------ MsFolderInfo
get_nb_retrieved_children(o) ==
  Len(o.ch["file"]) + Len(o.ch["folder"]) + Len(o.ch["other"])

children_retrieval_has_started(o) == o.status \in {"all", "partial"}

children_retrieval_is_completed(o) == o.status = "all"

\* __add_folder_info_if_necessary / __add_file_info_if_necessary /
\* __add_other_info_if_necessary / add_object_info: the collection is chosen
\* by the child's class; a child is added only if its name is not a key yet.
\* Passing None raises AttributeError.
add_object_info(c, p, a) ==
  IF c.err THEN c
  ELSE IF a = None THEN Err(c)
  ELSE LET k == c.heap[a].kind
           n == c.heap[a].name
       IN IF c.heap[p].dc[k][n] = None
          THEN [c EXCEPT !.heap[p].ch[k] = Append(@, a),
                         !.heap[p].dc[k][n] = a]
          ELSE c

\* remove_info_for_child that also takes the child's size off the parent.
remove_info_for_child_resizing(c, p, a) ==
  IF c.err THEN c
  ELSE LET k == c.heap[a].kind
           n == c.heap[a].name
       IN IF a \notin Range(c.heap[p].ch[k]) THEN Err(c)
          ELSE IF c.heap[p].dc[k][n] = None THEN Err(c)
          ELSE [c EXCEPT !.heap[p].ch[k] = RemoveFirst(@, a),
                         !.heap[p].dc[k][n] = None,
                         !.heap[p].size = @ - c.heap[a].size]

\* remove_info_for_child: list.remove raises ValueError when the child is
\* not in the list; dict.pop raises KeyError when its name is no key.
remove_info_for_child(c, p, a) ==
  IF c.err THEN c
  ELSE LET k == c.heap[a].kind
           n == c.heap[a].name
       IN IF a \notin Range(c.heap[p].ch[k]) THEN Err(c)
          ELSE LET c1 == [c EXCEPT !.heap[p].ch[k] = RemoveFirst(@, a)]
               IN IF c1.heap[p].dc[k][n] = None THEN Err(c1)
                  ELSE [c1 EXCEPT !.heap[p].dc[k][n] = None]

\* ---------------------------------------------------------------- MsObject
\* _change_name_in_parent of the three classes, then MsObject.set_name.
set_name(c, a, new_name) ==
  IF c.err THEN c
  ELSE LET o == c.heap[a]
           p == o.parent
           k == o.kind
       IN IF o.name = new_name THEN c
          ELSE LET c1 == IF p # None /\ o.name \in Names
                            /\ c.heap[p].dc[k][o.name] # None
                         THEN [c EXCEPT !.heap[p].dc[k][o.name] = None,
                                        !.heap[p].dc[k][new_name] = a]
                         ELSE c
               IN [c1 EXCEPT !.heap[a].name = new_name]

set_size(c, a, size) == [c EXCEPT !.heap[a].size = size]

\* A path is the sequence of its characters; a name is one character.
\* MsObject.path: the stored parent path, "/" and the name; "" for the root.
\* (__parent_path is a str from construction on, never None.)
path(h, a) ==
  IF h[a].is_root THEN <<>> ELSE h[a].parent_path \o <<"/", h[a].name>>

\* MsObject.update_parent (and MsFolderInfo.update_parent, whose '..' entry
\* is the parent field itself here).
update_parent(c, a, new_parent) ==
  IF c.err THEN c
  ELSE [c EXCEPT !.heap[a].parent = new_parent,
                 !.heap[a].parent_path = path(c.heap, new_parent)]

\* The chain of parents walked by the two update_parent_* loops, nearest
\* first.  The walk ends at the object without parent.
RECURSIVE ParentChain(_, _, _)
ParentChain(h, p, fuel) ==
  IF p = None \/ fuel = 0 THEN <<>>
  ELSE <<p>> \o ParentChain(h, h[p].parent, fuel - 1)

\* The names of the chain, outermost first, each after a "/".
RECURSIVE JoinNames(_, _)
JoinNames(h, chain) ==
  IF chain = <<>> THEN <<>>
  ELSE JoinNames(h, Tail(chain))
       \o (IF h[Head(chain)].is_root THEN <<>> ELSE <<"/", h[Head(chain)].name>>)

\* The path of a on the remote store: the names of its ancestors from the
\* root down to a, as the cache holds them.
RemotePath(h, a) == JoinNames(h, ParentChain(h, a, Len(h)))

\* A walk that leaves the ancestors as they are.
AddToChain_skipped(c, chain, delta) == c

RECURSIVE AddToChain(_, _, _)
AddToChain(c, chain, delta) ==
  IF chain = <<>> THEN c
  ELSE AddToChain(
         [c EXCEPT !.heap[Head(chain)].size = @ + delta,
                   !.heap[Head(chain)].lmdt = NOW],
         Tail(chain), delta)

update_parent_before_removal(c, a) ==
  IF c.err THEN c
  ELSE LET p == c.heap[a].parent IN
       IF p = None THEN c
       ELSE LET c1 == [c EXCEPT !.heap[p].child_count = @ - 1]
                c2 == AddToChain(c1, ParentChain(c1.heap, p, Len(c1.heap)),
                                 0 - c1.heap[a].size)
            IN remove_info_for_child(c2, p, a)

update_parent_after_arrival(c, a, new_parent) ==
  IF c.err THEN c
  ELSE IF new_parent = None THEN c
  ELSE LET c1 == [c EXCEPT !.heap[new_parent].child_count = @ + 1]
           c2 == AddToChain(c1,
                            ParentChain(c1.heap, new_parent, Len(c1.heap)),
                            c1.heap[a].size)
       IN add_object_info(c2, new_parent, a)

\* move_object, third statement: self.__parent_path = new_parent.path
SetParentPath(c, a, new_parent) ==
  IF c.err THEN c
  ELSE [c EXCEPT !.heap[a].parent_path = path(c.heap, new_parent)]

move_object(c, a, new_parent) ==
  update_parent_after_arrival(
    SetParentPath(
      update_parent(update_parent_before_removal(c, a), a, new_parent),
      a, new_parent),
    a, new_parent)

\* rename, second and third statement: the name field is assigned, then
\* the object arrives again at the parent it kept.
RenameArrive(c, a, new_name) ==
  IF c.err THEN c
  ELSE update_parent_after_arrival([c EXCEPT !.heap[a].name = new_name],
                                   a, c.heap[a].parent)

rename(c, a, new_name) ==
  RenameArrive(update_parent_before_removal(c, a), a, new_name)

\* --------------------------------------------------------- ------- garbage
\* Python frees an instance nothing refers to; its cell becomes free.
Refs(o) ==
  {o.parent}
    \cup UNION {Range(o.ch[k]) : k \in Kinds}
    \cup {o.dc[k][n] : k \in Kinds, n \in Names}

RECURSIVE Closure(_, _)
Closure(h, S) ==
  LET T == (S \cup UNION {Refs(h[a]) : a \in S}) \ {None}
  IN IF T = S THEN S ELSE Closure(h, T)

\* OneDriveShell.root_folder: the first instance ever built.
root_folder == 1

Live(c) ==
  Closure(c.heap, ({root_folder} \cup {c.dict[i] : i \in Ids}) \ {None})

RECURSIVE Trim(_)
Trim(h) ==
  IF h # <<>> /\ h[Len(h)].kind = "free" THEN Trim(SubSeq(h, 1, Len(h) - 1))
  ELSE h

Collect(c) ==
  LET live == Live(c)
  IN [c EXCEPT !.heap =
        Trim([a \in 1..Len(c.heap) |->
                IF a \in live THEN c.heap[a] ELSE FreeObj])]

\* The instance at a is dropped at once when nothing refers to it.
Drop(c, a) ==
  IF a \in Live(c) THEN c ELSE [c EXCEPT !.heap[a] = FreeObj]

\* ------------------------------------------------------- ObjectInfoFactory
\* UpdateMsFolderInfo: name, size, both timestamps and the child count of
\* the registered folder are overwritten from the reference.
UpdateMsFolderInfo(c, a, ref) ==
  IF c.err THEN c
  ELSE LET c1 == set_size(set_name(c, a, ref.name), a, ref.size)
       IN [c1 EXCEPT !.heap[a].lmdt = ref.lmdt,
                     !.heap[a].cdt = ref.cdt,
                     !.heap[a].child_count = ref.child_count]

\* UpdateMsFileInfo: name, size, both timestamps and both hashes.
UpdateMsFileInfo(c, a, ref) ==
  IF c.err THEN c
  ELSE LET c1 == set_size(set_name(c, a, ref.name), a, ref.size)
       IN [c1 EXCEPT !.heap[a].lmdt = ref.lmdt,
                     !.heap[a].cdt = ref.cdt,
                     !.heap[a].qxh = ref.qxh,
                     !.heap[a].sha1hash = ref.sha1hash]

\* ------------------------------------------------------------ DictMsObject
DictMsObject_get(c, ms_id) == c.dict[ms_id]

\* dict.pop raises KeyError for an id that is no key.
DictMsObject_remove(c, ms_id) ==
  IF c.err THEN c
  ELSE IF c.dict[ms_id] = None THEN Err(c)
  ELSE [c EXCEPT !.dict[ms_id] = None]

\* add_or_get_update(obj) for the candidate at address a.  The result is
\* the pair of the cache and the returned instance (None for a candidate
\* that is neither folder nor file and whose id is registered).  The
\* @beartype of the Update* functions rejects a registered instance of
\* another class than the candidate.
add_or_get_update(c, a) ==
  IF c.err THEN [c |-> c, res |-> None]
  ELSE LET obj == c.heap[a]
           obj_dict == c.dict[obj.ms_id]
       IN IF obj_dict # None
          THEN IF obj.kind = "folder"
               THEN IF c.heap[obj_dict].kind # "folder"
                    THEN [c |-> Err(c), res |-> None]
                    ELSE [c |-> UpdateMsFolderInfo(c, obj_dict, obj),
                          res |-> obj_dict]
               ELSE IF obj.kind = "file"
               THEN IF c.heap[obj_dict].kind # "file"
                    THEN [c |-> Err(c), res |-> None]
                    ELSE [c |-> UpdateMsFileInfo(c, obj_dict, obj),
                          res |-> obj_dict]
               ELSE [c |-> c, res |-> None]
          ELSE [c |-> [c EXCEPT !.dict[obj.ms_id] = a], res |-> a]

\* MsFolderFromMgcResponse / MsFileInfoFromMgcResponse /
\* MsOtherInfoFromMgcResponse: build a new instance from the descriptor,
\* add it to the parent's collection of its kind (if the name is free
\* there), then hand it to add_or_get_update unless told not to.  A folder
\* built without parent from a descriptor without parent path is the root.
AddToParent(c, parent, a) ==
  IF parent # None THEN add_object_info(c, parent, a) ELSE c

\* The candidate at a is freed once the factory returns, unless it is the
\* instance that got registered or the parent holds it.
Returned(r, a) == [c |-> Drop(r.c, a), res |-> r.res]

GlobalDict(c, a, no_update_and_get_from_global_dict) ==
  IF no_update_and_get_from_global_dict THEN [c |-> c, res |-> a]
  ELSE Returned(add_or_get_update(c, a), a)

\* The parent_path argument of the three constructors.  d.path holds
\* parentReference.path from its 13th character on, that is without the
\* 12 characters of "/drive/root:".  A folder takes parent.path when it has
\* a parent and path[12:] otherwise; a file or package takes path[13:].
ParentPathArg(h, d, parent) ==
  IF d.kind = "folder"
  THEN IF parent # None THEN path(h, parent)
       ELSE IF d.root THEN <<>> ELSE d.path
  ELSE IF d.path = <<>> THEN <<>> ELSE Tail(d.path)

FromMgcResponse(c, d, parent, no_update_and_get_from_global_dict) ==
  IF c.err THEN [c |-> c, res |-> None]
  ELSE GlobalDict(
         AddToParent(
           Alloc(c, NewObj([d EXCEPT !.path = ParentPathArg(c.heap, d, parent)],
                           parent,
                           d.kind = "folder" /\ parent = None /\ d.root)),
           parent, AllocAddr(c)),
         AllocAddr(c), no_update_and_get_from_global_dict)

\* An entry of the listing of folder f, or the folder created in f: the
\* remote store reports the path of f as its parent path.
Under(c, f, d) == IF c.err THEN d ELSE [d EXCEPT !.path = RemotePath(c.heap, f)]

\* The parent path of a change-feed item: the path of the parent it
\* declares, some other path when the cache does not hold that parent.
UNKNOWN_PATH == <<"/", "?">>

Fed(c, diff_item) ==
  [diff_item.d EXCEPT !.path =
     IF c.dict[diff_item.parent_id] = None THEN UNKNOWN_PATH
     ELSE RemotePath(c.heap, c.dict[diff_item.parent_id])]

\* ------------------------------------------------- retrieve_children_info
\* The test that guards a listing request.
MustFetch(o, max_retrieved_children) ==
  \/ ~children_retrieval_has_started(o)
  \/ /\ get_nb_retrieved_children(o) < o.child_count
     /\ get_nb_retrieved_children(o) < max_retrieved_children

\* The instance the factory returned is added to the folder again.
AddResult(r, f) == add_object_info(r.c, f, r.res)

\* The body of the loop over the entries of one page: a folder entry is
\* taken only while retrieval has not started; then files, then packages.
RetrieveEntry(c, f, d) ==
  IF c.err THEN c
  ELSE IF \/ ~children_retrieval_has_started(c.heap[f]) /\ d.kind = "folder"
          \/ d.kind = "file"
          \/ d.kind = "other"
  THEN AddResult(FromMgcResponse(c, Under(c, f, d), f, FALSE), f)
  ELSE c

RECURSIVE RetrieveEntries(_, _, _)
RetrieveEntries(c, f, items) ==
  IF items = <<>> THEN c
  ELSE RetrieveEntries(RetrieveEntry(c, f, Head(items)), f, Tail(items))

\* One listing response applied: cursor, entries, then the status.
SetStatus(c, f, next_link) ==
  IF c.err THEN c
  ELSE [c EXCEPT !.heap[f].status =
                    IF next_link # None THEN "partial" ELSE "all"]

ApplyPage(c, f, page) ==
  SetStatus(RetrieveEntries([c EXCEPT !.heap[f].next_link = page.next],
                            f, page.items),
            f, page.next)

\* A tail call that does not ask whether the page added a child.
MustContinue_without_progress(o, max_retrieved_children, start) ==
  /\ o.next_link # None
  /\ get_nb_retrieved_children(o) < o.child_count
  /\ get_nb_retrieved_children(o) < max_retrieved_children

\* The test of the tail call that requests the following page.
MustContinue(o, max_retrieved_children, nb_retrieved_children_start) ==
  /\ o.next_link # None
  /\ get_nb_retrieved_children(o) < o.child_count
  /\ get_nb_retrieved_children(o) < max_retrieved_children
  /\ nb_retrieved_children_start # get_nb_retrieved_children(o)

\* retrieve_children_info_next: one page from the stored link.  Every
\* entry that is no folder is built as a file, which raises KeyError for an
\* entry without 'file' facet.
RetrieveNextEntry(c, f, d) ==
  IF c.err THEN c
  ELSE IF d.kind = "other" THEN Err(c)
  ELSE AddResult(FromMgcResponse(c, Under(c, f, d), f, FALSE), f)

RECURSIVE RetrieveNextEntries(_, _, _)
RetrieveNextEntries(c, f, items) ==
  IF items = <<>> THEN c
  ELSE RetrieveNextEntries(RetrieveNextEntry(c, f, Head(items)), f,
                           Tail(items))

ApplyNextPage(c, f, page) ==
  SetStatus(RetrieveNextEntries([c EXCEPT !.heap[f].next_link = page.next],
                                f, page.items),
            f, page.next)

\* create_empty_subfolder after the remote call returned the descriptor d.
SubfolderArrived(r, f) ==
  update_parent_after_arrival(AddResult(r, f), r.res, f)

IncrChildCount(c, f) ==
  IF c.err THEN c ELSE [c EXCEPT !.heap[f].child_count = @ + 1]

create_empty_subfolder(c, f, d) ==
  IncrChildCount(
    SubfolderArrived(FromMgcResponse(c, Under(c, f, d), f, FALSE), f), f)

\* ------------------------------------------------------------------ paths
\* Folders a path typed by the user resolves to without triggering a
\* listing: get_lastfolderinfo_path walks the name-indexed folder map from
\* the root, and forces retrieval of every folder it walks through that has
\* not started yet.
RECURSIVE ReachStarted(_, _)
ReachStarted(h, S) ==
  LET T == (S \cup {h[a].dc["folder"][n] :
                      a \in {x \in S : children_retrieval_has_started(h[x])},
                      n \in Names}) \ {None}
  IN IF T = S THEN S ELSE ReachStarted(h, T)

ResolvableFolders(h) == ReachStarted(h, {root_folder})

CommandFolders(h) ==
  {a \in ResolvableFolders(h) : children_retrieval_has_started(h[a])}

\* StrPathUtil.split_path: the segments between the "/" of a path.
RECURSIVE split_path(_)
split_path(p) ==
  IF p = <<>> THEN <<"">>
  ELSE IF Head(p) = "/" THEN <<"">> \o split_path(Tail(p))
  ELSE <<Head(p)>> \o Tail(split_path(Tail(p)))

\* os.path.normpath on a path without "." or "..": a trailing "/" goes,
\* except from "/" itself.
normpath(p) ==
  IF Len(p) > 1 /\ p[Len(p)] = "/" THEN SubSeq(p, 1, Len(p) - 1) ELSE p

NoFolder == [folder |-> None, text |-> "None"]

\* The loop over folder_names: is_direct_child_folder(f, True) and
\* get_direct_child_folder(f, True).  A folder whose retrieval has not
\* started would be listed first; the walk stops there with "retrieve".
RECURSIVE WalkFolders(_, _, _, _)
WalkFolders(h, search_folder, folder_names, start_text) ==
  IF folder_names = <<>> THEN [folder |-> search_folder, text |-> start_text]
  ELSE IF ~children_retrieval_has_started(h[search_folder])
  THEN [folder |-> None, text |-> "retrieve"]
  ELSE IF Head(folder_names) \in Names
          /\ h[search_folder].dc["folder"][Head(folder_names)] # None
  THEN WalkFolders(h, h[search_folder].dc["folder"][Head(folder_names)],
                   Tail(folder_names), start_text)
  ELSE NoFolder

\* The segments to walk and the text that remains, from the normalised
\* absolute path: the last segment is the remaining text unless the input
\* ends with "/".
SplitLast(h, root_fi, input, folder_names) ==
  IF input[Len(input)] = "/"
  THEN WalkFolders(h, root_fi, folder_names, "")
  ELSE WalkFolders(h, root_fi, SubSeq(folder_names, 1, Len(folder_names) - 1),
                   folder_names[Len(folder_names)])

\* A resolver that walks every segment, the last one included.
get_lastfolderinfo_path_walking_all(h, root_fi, input, current_fi) ==
  IF input = <<>>
  THEN IF current_fi = None THEN NoFolder
       ELSE [folder |-> current_fi, text |-> ""]
  ELSE IF input[1] # "/" THEN NoFolder
  ELSE WalkFolders(h, root_fi, Tail(split_path(normpath(input))), "")

\* MsObject.get_lastfolderinfo_path(root_fi, input, current_fi) for an
\* input without "." and "..".
get_lastfolderinfo_path(h, root_fi, input, current_fi) ==
  IF input = <<>>
  THEN IF current_fi = None THEN NoFolder
       ELSE [folder |-> current_fi, text |-> ""]
  ELSE IF input[1] # "/" /\ current_fi = None THEN NoFolder
  ELSE SplitLast(h, root_fi, input,
                 Tail(split_path(
                   IF input[1] # "/"
                   THEN path(h, current_fi) \o <<"/">> \o normpath(input)
                   ELSE normpath(input))))

\* Objects below a (a included) through the child lists.
RECURSIVE Below(_, _)
Below(h, S) ==
  LET T == S \cup UNION {Range(h[a].ch[k]) : a \in S, k \in Kinds}
  IN IF T = S THEN S ELSE Below(h, T)

\* No instance is its own ancestor.
Acyclic(h) ==
  \A a \in 1..Len(h) : Len(ParentChain(h, a, Len(h) + 1)) <= Len(h)

\* ------------------------------------------------------------ DeltaChecker
\* A deletion that leaves the id registered.
process_diff_delete_keeping_id(c, diff_item) ==
  IF c.err THEN c
  ELSE LET msobj == DictMsObject_get(c, diff_item.id) IN
       IF msobj = None THEN c
       ELSE LET msobj_parent == DictMsObject_get(c, diff_item.parent_id)
            IN IF msobj_parent # None
               THEN remove_info_for_child(c, msobj_parent, msobj)
               ELSE c

\* __process_diff_delete
process_diff_delete(c, diff_item) ==
  IF c.err THEN c
  ELSE LET msobj == DictMsObject_get(c, diff_item.id) IN
       IF msobj = None THEN c
       ELSE LET c1 == DictMsObject_remove(c, diff_item.id)
                msobj_parent == DictMsObject_get(c1, diff_item.parent_id)
            IN IF msobj_parent # None
               THEN remove_info_for_child(c1, msobj_parent, msobj)
               ELSE c1

\* The tail shared by __process_diff_file and __process_diff_folder: an
\* unknown object whose parent is known is registered, and every object
\* known by now gets a pending (object, parent) entry.  s is the pair of
\* the cache and the pending list.
Defer(c, pend, obj, msobj_new_parent) ==
  [c |-> c,
   pend |-> IF obj # None /\ ~c.err
            THEN Append(pend, <<obj, msobj_new_parent>>)
            ELSE pend]

\* A registration that does not ask whether the parent is known.
RegisterAndDefer_any_parent(s, msobj, fi_ref, parent_id) ==
  IF msobj = None
  THEN Defer(add_or_get_update(s.c, fi_ref).c, s.pend, fi_ref,
             DictMsObject_get(s.c, parent_id))
  ELSE Defer(Drop(s.c, fi_ref), s.pend, msobj,
             DictMsObject_get(s.c, parent_id))

RegisterAndDefer(s, msobj, fi_ref, parent_id) ==
  IF msobj = None /\ DictMsObject_get(s.c, parent_id) # None
  THEN Defer(add_or_get_update(s.c, fi_ref).c, s.pend, fi_ref,
             DictMsObject_get(s.c, parent_id))
  ELSE Defer(Drop(s.c, fi_ref), s.pend, msobj,
             DictMsObject_get(s.c, parent_id))

\* __process_diff_file: the reference instance is built from the item.
MergeFileRef(s, r, msobj, diff_item) ==
  RegisterAndDefer(
    [s EXCEPT !.c = IF msobj # None
                    THEN UpdateMsFileInfo(r.c, msobj, r.c.heap[r.res])
                    ELSE r.c],
    msobj, r.res, diff_item.parent_id)

process_diff_file(s, diff_item) ==
  IF s.c.err THEN s
  ELSE MergeFileRef(s, FromMgcResponse(s.c, Fed(s.c, diff_item), None, TRUE),
                    DictMsObject_get(s.c, diff_item.id), diff_item)

\* __process_diff_folder: the reference instance is fetched by id; a fetch
\* error skips the item, and the root's item stops after the merge.
FolderMerged(s, c, fi_ref, msobj, diff_item) ==
  IF diff_item.root THEN [s EXCEPT !.c = Drop(c, fi_ref)]
  ELSE RegisterAndDefer([s EXCEPT !.c = c], msobj, fi_ref,
                        diff_item.parent_id)

MergeFolderRef(s, r, msobj, diff_item) ==
  FolderMerged(s,
               IF msobj # None
               THEN UpdateMsFolderInfo(r.c, msobj, r.c.heap[r.res])
               ELSE r.c,
               r.res, msobj, diff_item)

\* A folder upsert that lets the failed fetch leave process_diffs.
process_diff_folder_raising(s, diff_item) ==
  IF s.c.err THEN s
  ELSE IF diff_item.d.error THEN [s EXCEPT !.c = Err(s.c)]
  ELSE MergeFolderRef(s, FromMgcResponse(s.c, Fed(s.c, diff_item), None, TRUE),
                      DictMsObject_get(s.c, diff_item.id), diff_item)

process_diff_folder(s, diff_item) ==
  IF s.c.err THEN s
  ELSE IF diff_item.d.error THEN s
  ELSE MergeFolderRef(s, FromMgcResponse(s.c, Fed(s.c, diff_item), None, TRUE),
                      DictMsObject_get(s.c, diff_item.id), diff_item)

\* A reparenting that walks the ancestors as move_object does.
process_parentship_propagating(c, parentship_item) ==
  IF c.err THEN c
  ELSE IF parentship_item[2] = None
  THEN DictMsObject_remove(
         update_parent_before_removal(c, parentship_item[1]),
         c.heap[parentship_item[1]].ms_id)
  ELSE move_object(c, parentship_item[1], parentship_item[2])

\* __process_parentship
process_parentship(c, parentship_item) ==
  IF c.err THEN c
  ELSE LET msobj == parentship_item[1]
           new_parent == parentship_item[2]
           old == c.heap[msobj].parent
       IN IF new_parent = None
          THEN IF ~c.heap[msobj].is_root
               THEN IF old = None THEN Err(c)
                    ELSE DictMsObject_remove(
                           remove_info_for_child(c, old, msobj),
                           c.heap[msobj].ms_id)
               ELSE c
          ELSE IF old = None
          THEN add_object_info(update_parent(c, msobj, new_parent),
                               new_parent, msobj)
          ELSE IF c.heap[old].ms_id # c.heap[new_parent].ms_id
          THEN add_object_info(
                 update_parent(remove_info_for_child(c, old, msobj),
                               msobj, new_parent),
                 new_parent, msobj)
          ELSE c

RECURSIVE MapDelete(_, _)
MapDelete(c, items) ==
  IF items = <<>> THEN c
  ELSE MapDelete(process_diff_delete(c, Head(items)), Tail(items))

RECURSIVE MapFile(_, _)
MapFile(s, items) ==
  IF items = <<>> THEN s
  ELSE MapFile(process_diff_file(s, Head(items)), Tail(items))

RECURSIVE MapFolder(_, _)
MapFolder(s, items) ==
  IF items = <<>> THEN s
  ELSE MapFolder(process_diff_folder(s, Head(items)), Tail(items))

RECURSIVE MapParentship(_, _)
MapParentship(c, pend) ==
  IF pend = <<>> THEN c
  ELSE MapParentship(process_parentship(c, Head(pend)), Tail(pend))

IsDeleted(x) == x.deleted
IsFolderUpsert(x) == x.kind = "folder" /\ ~x.deleted
IsFileUpsert(x) == x.kind = "file" /\ ~x.deleted

\* process_diffs: the three filters, then deletions, file upserts, folder
\* upserts and the pending parent changes, in that order.  An exception
\* leaves the rest undone.
ApplyParentship(s) == MapParentship(s.c, s.pend)

process_diffs(c, items_to_be_processed) ==
  ApplyParentship(
    MapFolder(
      MapFile([c |-> MapDelete(c, SelectSeq(items_to_be_processed, IsDeleted)),
               pend |-> <<>>],
              SelectSeq(items_to_be_processed, IsFileUpsert)),
      SelectSeq(items_to_be_processed, IsFolderUpsert)))

\* ------------------------------------------------------ remote responses
\* What the remote client hands back: item descriptors of MS Graph.  root is
\* set for the descriptor without parent path (the drive root); error is set
\* for a response that carries 'error' instead of an item.
Desc(id, name, size, cc, lmdt, qxh) ==
  [id |-> id, kind |-> KindOf(id), name |-> name, size |-> size,
   childCount |-> cc, lmdt |-> lmdt, cdt |-> lmdt,
   qxh |-> qxh, sha1hash |-> qxh, root |-> id = ROOT_ID, error |-> FALSE,
   path |-> <<>>]

ErrorDesc(id) == [Desc(id, "", 0, 0, "", "") EXCEPT !.error = TRUE]

CountsOf(id) == IF KindOf(id) = "folder" THEN ChildCounts ELSE {0}
HashOf(id) == IF KindOf(id) = "file" THEN "h1" ELSE "None"

\* Descriptors of the item id as the listings and the change feed report it.
ItemDescs(id) ==
  {Desc(id, n, sz, cc, "t1", HashOf(id)) :
     n \in Names, sz \in Sizes, cc \in CountsOf(id)}

RootDescs ==
  {Desc(ROOT_ID, ROOT_NAME, sz, cc, "t1", "None") :
     sz \in 0..MaxSize, cc \in ChildCounts}

SeqsUpTo(S, n) == UNION {[1..k -> S] : k \in 0..n}

DistinctIds(s) == \A i, j \in 1..Len(s) : i # j => s[i].id # s[j].id

\* One page of get_ms_response_for_children_from_id / _from_link for the
\* folder with id fid: entries with distinct ids, none of them the folder
\* itself or the root, and the link to the following page; or the failure
\* of the request (MsGraphException).
PagesOf(fid, n) ==
  {[fail |-> FALSE, items |-> it, next |-> nx] :
     it \in {q \in SeqsUpTo(UNION {ItemDescs(i) : i \in Ids \ {ROOT_ID, fid}},
                            n) : DistinctIds(q)},
     nx \in Links \cup {None}}
  \cup {[fail |-> TRUE, items |-> <<>>, next |-> None]}

Pages(fid) == PagesOf(fid, MaxPageItems)

FolderRefs == FolderIds \cup {ROOT_ID}

\* Items of the change feed.  A deleted item carries its id and parent
\* reference; a file upsert carries the file's descriptor; a folder upsert
\* is paired with the response of get_object_info_from_id for it; the root's
\* item carries the 'root' facet.
DeltaItems ==
  {[id |-> i, kind |-> KindOf(i), deleted |-> TRUE, root |-> FALSE,
    parent_id |-> p, d |-> ErrorDesc(i)] :
     i \in Ids \ {ROOT_ID}, p \in FolderRefs} 
  \cup UNION {{[id |-> i, kind |-> "file", deleted |-> FALSE, root |-> FALSE,
                parent_id |-> p, d |-> d] :
                 p \in FolderRefs, d \in ItemDescs(i)} : i \in FileIds}
  \cup UNION {{[id |-> i, kind |-> "folder", deleted |-> FALSE,
                root |-> FALSE, parent_id |-> p, d |-> d] :
                 p \in FolderRefs, d \in ItemDescs(i) \cup {ErrorDesc(i)}} :
              i \in FolderIds}
  \cup {[id |-> ROOT_ID, kind |-> "folder", deleted |-> FALSE, root |-> TRUE,
         parent_id |-> ROOT_ID, d |-> d] : d \in RootDescs \cup {ErrorDesc(ROOT_ID)}}

\* A batch of the change feed: up to MaxBatch items about one remote
\* object (its deletion, its upserts), none naming itself as its parent.
Batches ==
  {b \in SeqsUpTo({x \in DeltaItems : x.root \/ x.parent_id # x.id}, MaxBatch) :
     \A i, j \in 1..Len(b) : b[i].id = b[j].id}

\* ---------------------------------------------------------- ServerCheckDelta
\* Durations are counted in seconds.
MIN_WAIT_DELAY == 15
MAX_WAIT_DELAY == 300
START_WAIT_DELAY == 20
COEF_DELAY == 2
\* EMA.__alpha = 0.3, in tenths.
ALPHA == 3
EMA_START == 15

\* An average that weighs the elapsed interval with 1 - alpha.
Ema_weights_exchanged(delay_since_last_tick, value) ==
  (delay_since_last_tick * (10 - ALPHA) + value * ALPHA) \div 10

\* EMA: delay_since_last_tick * alpha + value * (1 - alpha), rounded down
\* to the second.
Ema(delay_since_last_tick, value) ==
  (delay_since_last_tick * ALPHA + value * (10 - ALPHA)) \div 10

\* A delay left as computed.
update_delay_unclamped(ema_value) == ema_value * COEF_DELAY

\* update_delay_with_ema_value: the value assigned to __wait_delay.
update_delay_with_ema_value(ema_value) ==
  IF ema_value * COEF_DELAY < MIN_WAIT_DELAY THEN MIN_WAIT_DELAY
  ELSE IF ema_value * COEF_DELAY > MAX_WAIT_DELAY THEN MAX_WAIT_DELAY
  ELSE ema_value * COEF_DELAY

\* ServerCheckDelta.__init__, the new loop thread and the shell thread that
\* has just started it.  since is time.time() - EMA.__last_tick; tmp and
\* ltmp are the delay_since_last_tick the shell thread and the loop thread
\* have read.  phase, rest and pend are the position of process_diffs when
\* it is followed item by item, applied the items it has handled so far.
\* add_pc, add_id and add_found are the position of a thread inside
\* DictMsObject.add_or_get_update and what its membership test found.
\* No response of the change feed is being handled.
NoResponse == [items |-> <<>>, link |-> 0, next |-> FALSE, error |-> FALSE]

ScdInit ==
  [pc |-> "top", main |-> "launch", lock |-> "free",
   wait_delay |-> START_WAIT_DELAY, value |-> EMA_START, since |-> 0,
   tmp |-> 0, ltmp |-> 0, to_be_stopped |-> FALSE, is_stopped |-> FALSE,
   items |-> <<>>, caught |-> FALSE,
   phase |-> 0, rest |-> <<>>, pend |-> <<>>, applied |-> <<>>,
   add_pc |-> "idle", add_id |-> "", add_found |-> FALSE,
   delta_link |-> 0, query_string |-> 0, r |-> NoResponse,
   mgc |-> <<>>, lists |-> <<>>, log |-> <<>>]

\* ----------------------------------------------------------------- actions
Idle == [op |-> "idle", f |-> None, max |-> 0, start |-> 0]

NoLast ==
  [op |-> "init", a |-> None, b |-> None, name |-> "", ok |-> TRUE,
   err |-> FALSE, calls |-> 0, del |-> 0, depth |-> 0, max |-> 0]

Cache == [heap |-> heap, dict |-> dictmap, err |-> FALSE]

\* OneDriveShell.__init__: the root folder is fetched by path and registered.
\* The cache before anything is built.
EmptyCache == [heap |-> <<>>, dict |-> [i \in Ids |-> None], err |-> FALSE]

Built(r) == heap = r.c.heap /\ dictmap = r.c.dict

Init ==
  /\ \E d \in RootDescs : Built(FromMgcResponse(EmptyCache, d, None, FALSE))
  /\ fg = Idle
  /\ nops = 0
  /\ last = NoLast
  /\ scd = ScdInit

\* A direct call of retrieve_children_info(max_retrieved_children) on a
\* folder (tab completion, launch, ls of a folder not yet complete, forced
\* retrieval during path resolution), up to its first listing request.
RetrieveBegin(f, mx) ==
  /\ fg.op = "idle"
  /\ nops < MaxOps
  /\ f \in ResolvableFolders(heap)
  /\ nops' = nops + 1
  /\ fg' = IF MustFetch(heap[f], mx)
           THEN [op |-> "retrieve", f |-> f, max |-> mx,
                 start |-> get_nb_retrieved_children(heap[f])]
           ELSE Idle
  /\ last' = [NoLast EXCEPT !.op = "retrieve", !.a = f]
  /\ UNCHANGED <<heap, dictmap>>

\* A handler leaves the cache c behind and the record l of what it did.
Commit(c, l) ==
  /\ heap' = c.heap
  /\ dictmap' = c.dict
  /\ last' = [l EXCEPT !.err = c.err]

\* After a page is applied the call either requests the following page
\* (the tail call) or returns.
PageApplied(c, cont) ==
  /\ Commit(IF cont THEN c ELSE Collect(c), [last EXCEPT !.calls = @ + 1])
  /\ fg' = IF cont
           THEN [fg EXCEPT !.start = get_nb_retrieved_children(c.heap[fg.f])]
           ELSE Idle

PageFetched(c) ==
  PageApplied(c, ~c.err /\ MustContinue(c.heap[fg.f], fg.max, fg.start))

\* A listing whose failure forgets the continuation cursor.
RetrievePage_forgetting_link(page) ==
  /\ IF page.fail
     THEN /\ fg' = Idle
          /\ last' = [last EXCEPT !.calls = @ + 1, !.ok = FALSE]
          /\ heap' = [heap EXCEPT ![fg.f].next_link = None]
          /\ UNCHANGED dictmap
     ELSE PageFetched(ApplyPage(Cache, fg.f, page))
  /\ UNCHANGED nops

\* The listing response arrives: a failure ends the call, a page is applied.
RetrievePage(page) ==
  /\ IF page.fail
     THEN /\ fg' = Idle
          /\ last' = [last EXCEPT !.calls = @ + 1, !.ok = FALSE]
          /\ UNCHANGED <<heap, dictmap>>
     ELSE PageFetched(ApplyPage(Cache, fg.f, page))
  /\ UNCHANGED nops

\* lls: retrieve_children_info_next on a folder that is not complete.
RetrieveNext(f, page) ==
  /\ fg.op = "idle"
  /\ nops < MaxOps
  /\ f \in ResolvableFolders(heap)
  /\ ~children_retrieval_is_completed(heap[f])
  /\ page \in Pages(heap[f].ms_id)
  /\ heap[f].next_link = None => page.fail
  /\ Commit(IF page.fail THEN Cache
            ELSE Collect(ApplyNextPage(Cache, f, page)),
            [NoLast EXCEPT !.op = "next", !.a = f, !.calls = 1,
                           !.ok = ~page.fail])
  /\ nops' = nops + 1
  /\ UNCHANGED fg

\* The object a command names by (folder, last path segment): a file of
\* that name first, else a folder.
NamedObj(h, lfip, rt) ==
  IF h[lfip].dc["file"][rt] # None THEN h[lfip].dc["file"][rt]
  ELSE h[lfip].dc["folder"][rt]

\* action_mkdir
Mkdir(lfip_dst, rt_dst, id, created) ==
  /\ fg.op = "idle"
  /\ nops < MaxOps
  /\ lfip_dst \in CommandFolders(heap)
  /\ heap[lfip_dst].dc["folder"][rt_dst] = None
       => heap[lfip_dst].dc["file"][rt_dst] = None
  /\ \A a \in 1..Len(heap) : heap[a].ms_id # id
  /\ LET dst_parent == IF heap[lfip_dst].dc["folder"][rt_dst] # None
                       THEN heap[lfip_dst].dc["folder"][rt_dst]
                       ELSE lfip_dst
     IN Commit(IF created
               THEN Collect(create_empty_subfolder(
                              Cache, dst_parent,
                              Desc(id, rt_dst, 0, 0, "t1", "None")))
               ELSE Cache,
               [NoLast EXCEPT !.op = "mkdir", !.a = dst_parent,
                              !.name = rt_dst, !.ok = created])
  /\ nops' = nops + 1
  /\ UNCHANGED fg

\* action_mv.  The remote store refuses to move a folder below itself.
Mv(lfip_src, rt_src, lfip_dst, rt_dst, r) ==
  /\ fg.op = "idle"
  /\ nops < MaxOps
  /\ lfip_src \in CommandFolders(heap)
  /\ lfip_dst \in CommandFolders(heap)
  /\ NamedObj(heap, lfip_src, rt_src) # None
  /\ LET src_obj == NamedObj(heap, lfip_src, rt_src)
         to_folder == rt_dst = "" \/ heap[lfip_dst].dc["folder"][rt_dst] # None
         is_a_renaming == ~to_folder
         dst_parent == IF rt_dst # "" /\ to_folder
                       THEN heap[lfip_dst].dc["folder"][rt_dst]
                       ELSE lfip_dst
     IN /\ IF to_folder THEN TRUE ELSE heap[lfip_dst].dc["file"][rt_dst] = None
        /\ r => dst_parent \notin Below(heap, {src_obj})
        /\ Commit(IF r
                  THEN Collect(move_object(
                                 IF is_a_renaming
                                 THEN rename(Cache, src_obj, rt_dst)
                                 ELSE Cache,
                                 src_obj, dst_parent))
                  ELSE Cache,
                  [NoLast EXCEPT !.op = "mv", !.a = src_obj, !.b = dst_parent,
                                 !.name = rt_dst, !.ok = r])
  /\ nops' = nops + 1
  /\ UNCHANGED fg

\* An rm that updates the cache whatever the remote call returns.
Rm_before_remote(lfip_dst, rt_dst, r) ==
  /\ fg.op = "idle"
  /\ nops < MaxOps
  /\ lfip_dst \in CommandFolders(heap)
  /\ NamedObj(heap, lfip_dst, rt_dst) # None
  /\ LET dst_obj == NamedObj(heap, lfip_dst, rt_dst)
     IN Commit(Collect(DictMsObject_remove(
                         update_parent_before_removal(Cache, dst_obj),
                         heap[dst_obj].ms_id)),
               [NoLast EXCEPT !.op = "rm", !.a = dst_obj,
                              !.b = heap[dst_obj].parent,
                              !.name = rt_dst, !.ok = r])
  /\ nops' = nops + 1
  /\ UNCHANGED fg

\* action_rm
Rm(lfip_dst, rt_dst, r) ==
  /\ fg.op = "idle"
  /\ nops < MaxOps
  /\ lfip_dst \in CommandFolders(heap)
  /\ NamedObj(heap, lfip_dst, rt_dst) # None
  /\ LET dst_obj == NamedObj(heap, lfip_dst, rt_dst)
     IN Commit(IF r
               THEN Collect(DictMsObject_remove(
                              update_parent_before_removal(Cache, dst_obj),
                              heap[dst_obj].ms_id))
               ELSE Cache,
               [NoLast EXCEPT !.op = "rm", !.a = dst_obj,
                              !.b = heap[dst_obj].parent,
                              !.name = rt_dst, !.ok = r])
  /\ nops' = nops + 1
  /\ UNCHANGED fg

\* One iteration of ServerCheckDelta.loop under the global lock: get_diffs
\* collects the batch, process_diffs applies it when it is not empty.  The
\* remote store is a tree, so no batch leaves a folder below itself.
\* The record of a cycle: the id its batch is about, the number of items
\* and of deletions among them, the instance that was registered for that
\* id before the cycle and the parent it had.
SyncRecord(batch) ==
  IF batch = <<>> THEN [NoLast EXCEPT !.op = "sync"]
  ELSE [NoLast EXCEPT
          !.op = "sync", !.name = batch[1].id, !.calls = Len(batch),
          !.del = Len(SelectSeq(batch, IsDeleted)),
          !.a = dictmap[batch[1].id],
          !.b = IF dictmap[batch[1].id] = None THEN None
                ELSE heap[dictmap[batch[1].id]].parent]

Synced(c, l) ==
  /\ Acyclic(c.heap)
  /\ Commit(c, l)

SyncCycle(batch) ==
  /\ fg.op = "idle"
  /\ nops < MaxOps
  /\ Synced(IF Len(batch) > 0 THEN Collect(process_diffs(Cache, batch))
            ELSE Cache,
            SyncRecord(batch))
  /\ nops' = nops + 1
  /\ UNCHANGED fg

Next ==
  \/ \E f \in 1..Len(heap), mx \in {1, DEFAULT_MAX_CHILDREN} :
       RetrieveBegin(f, mx) /\ UNCHANGED scd
  \/ /\ fg.op = "retrieve"
     /\ \E page \in Pages(heap[fg.f].ms_id) : RetrievePage(page)
     /\ UNCHANGED scd
  \/ \E f \in 1..Len(heap) : \E page \in Pages(heap[f].ms_id) :
       RetrieveNext(f, page) /\ UNCHANGED scd
  \/ \E f \in 1..Len(heap), n \in Names, id \in FolderIds, created \in BOOLEAN :
       Mkdir(f, n, id, created) /\ UNCHANGED scd
  \/ \E ls \in 1..Len(heap), ld \in 1..Len(heap), rs \in Names,
        rd \in Names \cup {""}, r \in BOOLEAN :
       Mv(ls, rs, ld, rd, r) /\ UNCHANGED scd
  \/ \E f \in 1..Len(heap), n \in Names, r \in BOOLEAN :
       Rm(f, n, r) /\ UNCHANGED scd
  \/ \E batch \in Batches : SyncCycle(batch) /\ UNCHANGED scd

Spec == Init /\ [][Next]_vars

\* Lazy retrieval alone: the commands that only list folders.
NextList ==
  \/ \E f \in 1..Len(heap), mx \in {1, DEFAULT_MAX_CHILDREN} :
       RetrieveBegin(f, mx) /\ UNCHANGED scd
  \/ /\ fg.op = "retrieve"
     /\ \E page \in Pages(heap[fg.f].ms_id) : RetrievePage(page)
     /\ UNCHANGED scd
  \/ \E f \in 1..Len(heap) : \E page \in Pages(heap[f].ms_id) :
       RetrieveNext(f, page) /\ UNCHANGED scd

SpecList == Init /\ [][NextList]_vars

\* ------------------------------------------- synchronisation after launch
\* Number of entries of the root the first listing returns.
MaxInitItems == 2
\* Number of synchronisation cycles that follow.
MaxCycles == 1

\* OneDriveShell.launch lists the root before the first prompt: here the
\* listing that fits in one page, taken when the root's descriptor was, so
\* that it has as many entries as the descriptor counts.
InitPages ==
  {p \in PagesOf(ROOT_ID, MaxInitItems) : ~p.fail /\ p.next = None}

Launched(c) == heap = c.heap /\ dictmap = c.dict

ListedCache ==
  /\ \E d \in RootDescs, page \in InitPages :
       /\ Len(page.items) = d.childCount
       /\ Launched(Collect(ApplyPage(
                     FromMgcResponse(EmptyCache, d, None, FALSE).c,
                     root_folder, page)))
  /\ fg = Idle
  /\ nops = MaxOps - MaxCycles
  /\ last = NoLast

InitListed == ListedCache /\ scd = ScdInit

NextSync == \E batch \in Batches : SyncCycle(batch) /\ UNCHANGED scd

SpecSync == InitListed /\ [][NextSync]_vars

\* ------------------------------------------------- the identity map alone
\* Largest size of a candidate handed to add_or_get_update directly.
MaxCandSize == 2

\* Candidates of the three classes as the factory builds them, with every
\* mutable attribute varying.
Candidates ==
  UNION {{Desc(i, n, sz, cc, t, IF KindOf(i) = "file" THEN h ELSE "None") :
            n \in Names, sz \in 0..MaxCandSize, cc \in CountsOf(i),
            t \in Stamps, h \in {"h1", "h2"}} : i \in Ids \ {ROOT_ID}}

\* result = DictMsObject.add_or_get_update(obj) for a fresh instance obj;
\* the caller holds obj and result afterwards.
DictAdded(c, a) ==
  Commit(add_or_get_update(c, a).c,
         [NoLast EXCEPT !.op = "add", !.a = add_or_get_update(c, a).res,
                        !.b = a])

DictAdd(d) ==
  /\ nops < MaxOps
  /\ DictAdded(Alloc(Cache, NewObj(d, None, FALSE)), AllocAddr(Cache))
  /\ nops' = nops + 1
  /\ UNCHANGED fg

\* DictMsObject.remove(ms_id) of a registered id.
DictRemove(id) ==
  /\ nops < MaxOps
  /\ dictmap[id] # None
  /\ Commit(DictMsObject_remove(Cache, id),
            [NoLast EXCEPT !.op = "remove", !.a = dictmap[id]])
  /\ nops' = nops + 1
  /\ UNCHANGED fg

NextDict ==
  \/ \E d \in Candidates : DictAdd(d) /\ UNCHANGED scd
  \/ \E id \in Ids \ {ROOT_ID} : DictRemove(id) /\ UNCHANGED scd

SpecDict == Init /\ [][NextDict]_vars

\* ------------------------------------------------ the loop and the shell
\* Longest time without a tick the model follows, in seconds.
MaxIdle == 400
\* Time that passes between two steps: nothing measurable during a burst of
\* commands (no Elapse step), or a long pause.
Intervals == {MaxIdle}

Quiet == UNCHANGED <<heap, dictmap, fg, nops, last>>

\* time.time() advances.
Elapse(dt) ==
  /\ scd.since + dt <= MaxIdle
  /\ scd' = [scd EXCEPT !.since = @ + dt]
  /\ Quiet

\* loop: "with self.__lock_process" is entered at the top of an iteration.
\* scd.caught tells whether the iteration went through the except clause.
LoopEnter ==
  /\ scd.pc = "top"
  /\ scd.lock = "free"
  /\ scd' = [scd EXCEPT !.pc = "get_diffs", !.lock = "loop",
                        !.caught = FALSE]
  /\ Quiet

\* loop: get_diffs appends what the change feed returns to the item buffer;
\* a request that fails raises after the items of the pages before it were
\* appended.  The exception leaves the with block and is logged.
\* A fetch whose exception leaves the lock held.
LoopGetDiffs_keeping_lock(batch, fails) ==
  /\ scd.pc = "get_diffs"
  /\ scd' = [scd EXCEPT
               !.items = batch,
               !.pc = IF fails THEN "reinit" ELSE "process",
               !.caught = fails]
  /\ Quiet

LoopGetDiffs(batch, fails) ==
  /\ scd.pc = "get_diffs"
  /\ scd' = [scd EXCEPT
               !.items = batch,
               !.pc = IF fails THEN "reinit" ELSE "process",
               !.lock = IF fails THEN "free" ELSE @,
               !.caught = fails]
  /\ Quiet

\* ------------------------------------------------------------- get_diffs
\* The change feed is the server's log of changes; a link (the cursor
\* self.delta_link or a page's nextLink) is a position in it, and the item
\* at position k carries pos = k.  DeltaChecker.__init__ asks for the latest
\* position, 0 here.
MaxFeed == 2

FeedItems == {x \in DeltaItems : x.id = "X" /\ x.deleted}

AtPos(x, k) ==
  [id |-> x.id, kind |-> x.kind, deleted |-> x.deleted, root |-> x.root,
   parent_id |-> x.parent_id, d |-> x.d, pos |-> k]

\* What the server may answer to a request at position q: an error, or up
\* to MaxPageItems changes from q on with the link that follows them, a
\* nextLink when the page is not the last one and a deltaLink when it is.
FeedResponses(q) ==
  {[NoResponse EXCEPT !.error = TRUE]}
    \cup {[items |-> [i \in 1..Len(b) |-> AtPos(b[i], q + i - 1)],
           link |-> q + Len(b), next |-> n, error |-> FALSE] :
            b \in SeqsUpTo(FeedItems, MaxPageItems), n \in BOOLEAN}

\* get_diffs: query_string = self.delta_link
GetDiffsBegin ==
  /\ scd.pc = "get_diffs"
  /\ scd' = [scd EXCEPT !.pc = "get", !.query_string = scd.delta_link]
  /\ Quiet

\* get_diffs: r = self.mgc.mgc.get(query_string)
GetDiffsRequest(r) ==
  /\ scd.pc = "get"
  /\ r.link <= MaxFeed
  /\ scd' = [scd EXCEPT !.pc = "got", !.r = r]
  /\ Quiet

\* A get_diffs that stores the link of every page as the cursor.
GetDiffsPage_storing_each_link ==
  /\ scd.pc = "got"
  /\ scd' =
       IF scd.r.error
       THEN [scd EXCEPT !.pc = "reinit", !.lock = "free", !.caught = TRUE,
                        !.r = NoResponse]
       ELSE [scd EXCEPT
               !.items = @ \o scd.r.items,
               !.query_string = scd.r.link,
               !.delta_link = scd.r.link,
               !.pc = IF scd.r.next THEN "get" ELSE "process",
               !.r = NoResponse]
  /\ Quiet

\* get_diffs: the body of the loop after the request and, after the last
\* page, the assignment of self.delta_link.  A response that cannot be read
\* (r.json() or items_json['value'] raises) leaves get_diffs and the with
\* block of loop with what the pages before it appended still in the
\* buffer.
GetDiffsPage ==
  /\ scd.pc = "got"
  /\ scd' =
       IF scd.r.error
       THEN [scd EXCEPT !.pc = "reinit", !.lock = "free", !.caught = TRUE,
                        !.r = NoResponse]
       ELSE IF scd.r.next
       THEN [scd EXCEPT !.items = @ \o scd.r.items,
                        !.query_string = scd.r.link,
                        !.pc = "get", !.r = NoResponse]
       ELSE [scd EXCEPT !.items = @ \o scd.r.items,
                        !.delta_link = scd.r.link,
                        !.pc = "process", !.r = NoResponse]
  /\ Quiet

\* A loop without except clause: an exception of process_diffs ends the
\* thread.
LoopProcess_uncaught ==
  /\ scd.pc = "process"
  /\ IF Len(scd.items) > 0
     THEN /\ nops < MaxOps
          /\ Synced(Collect(process_diffs(Cache, scd.items)),
                    SyncRecord(scd.items))
          /\ nops' = nops + 1
     ELSE UNCHANGED <<heap, dictmap, nops, last>>
  /\ scd' = [scd EXCEPT
               !.pc = IF Len(scd.items) > 0 /\ last'.err THEN "done"
                      ELSE "reinit",
               !.lock = "free",
               !.caught = Len(scd.items) > 0 /\ last'.err]
  /\ UNCHANGED fg

\* loop: process_diffs on a buffer that is not empty, then the with block
\* is left, by the end of the block or by an exception that is logged.
LoopProcess ==
  /\ scd.pc = "process"
  /\ IF Len(scd.items) > 0
     THEN /\ nops < MaxOps
          /\ Synced(Collect(process_diffs(Cache, scd.items)),
                    SyncRecord(scd.items))
          /\ nops' = nops + 1
     ELSE UNCHANGED <<heap, dictmap, nops, last>>
  /\ scd' = [scd EXCEPT !.pc = "reinit", !.lock = "free",
                        !.caught = Len(scd.items) > 0 /\ last'.err]
  /\ UNCHANGED fg

\* loop: self.dc.reinit()
LoopReinit ==
  /\ scd.pc = "reinit"
  /\ scd' = [scd EXCEPT !.pc = "wait", !.items = <<>>]
  /\ Quiet

\* loop: to_be_stopped.wait(timeout=self.__wait_delay) returns True as soon
\* as the event is set, False when the delay has run out.
LoopWait ==
  /\ scd.pc = "wait"
  /\ scd' = [scd EXCEPT !.pc = IF scd.to_be_stopped THEN "break"
                               ELSE "value_if_ticked_now"]
  /\ Quiet

\* loop: EMA.value_if_ticked_now reads the clock and __last_tick, then
\* __value; update_delay_with_ema_value assigns the new delay.
LoopReadTick ==
  /\ scd.pc = "value_if_ticked_now"
  /\ scd' = [scd EXCEPT !.pc = "update_delay", !.ltmp = scd.since]
  /\ Quiet

\* A query that records what it has read as a tick.
LoopUpdateDelay_recording_tick ==
  /\ scd.pc = "update_delay"
  /\ scd' = [scd EXCEPT
               !.pc = "top",
               !.value = Ema(scd.ltmp, scd.value),
               !.since = 0,
               !.wait_delay =
                  update_delay_with_ema_value(Ema(scd.ltmp, scd.value))]
  /\ Quiet

LoopUpdateDelay ==
  /\ scd.pc = "update_delay"
  /\ scd' = [scd EXCEPT
               !.pc = "top",
               !.wait_delay =
                  update_delay_with_ema_value(Ema(scd.ltmp, scd.value))]
  /\ Quiet

\* loop: after the break, is_stopped.set().
LoopExit ==
  /\ scd.pc = "break"
  /\ scd' = [scd EXCEPT !.pc = "done", !.is_stopped = TRUE]
  /\ Quiet

\* launch: current_fi.retrieve_children_info(recursive=False), called once
\* the loop thread is started.  An exception leaves launch.
Launching ==
  IF last'.err THEN "exited" ELSE IF fg'.op = "idle" THEN "prompt" ELSE "launching"

LaunchRetrieve ==
  /\ scd.main = "launch"
  /\ RetrieveBegin(root_folder, DEFAULT_MAX_CHILDREN)
  /\ scd' = [scd EXCEPT !.main = Launching]

LaunchPage(page) ==
  /\ scd.main = "launching"
  /\ fg.op = "retrieve"
  /\ RetrievePage(page)
  /\ scd' = [scd EXCEPT !.main = Launching]

\* launch, the command loop: "with self.global_lock" around do_action.
FgAcquire ==
  /\ scd.main = "prompt"
  /\ scd.lock = "free"
  /\ scd' = [scd EXCEPT !.main = "cmd", !.lock = "main"]
  /\ Quiet

\* A command that leaves the cache as it is (pwd, cd, stat of a known path).
FgQuiet ==
  /\ scd.main = "cmd"
  /\ scd' = [scd EXCEPT !.main = "release"]
  /\ last' = [NoLast EXCEPT !.op = "quiet"]
  /\ UNCHANGED <<heap, dictmap, fg, nops>>

FgMkdir(f, n, id, created) ==
  /\ scd.main = "cmd"
  /\ Mkdir(f, n, id, created)
  /\ scd' = [scd EXCEPT !.main = "release"]

\* The with block is left; tick() is skipped when do_action raised.
FgRelease ==
  /\ scd.main = "release"
  /\ scd' = [scd EXCEPT !.main = IF last.err THEN "prompt" ELSE "tick",
                        !.lock = "free"]
  /\ Quiet

\* EMA.tick: __last_tick becomes the clock, then __value is recomputed;
\* tick() then assigns the new delay.
TickRead ==
  /\ scd.main = "tick"
  /\ scd' = [scd EXCEPT !.main = "tick_value", !.tmp = scd.since, !.since = 0]
  /\ Quiet

TickValue ==
  /\ scd.main = "tick_value"
  /\ scd' = [scd EXCEPT !.main = "tick_delay",
                        !.value = Ema(scd.tmp, scd.value)]
  /\ Quiet

TickDelay ==
  /\ scd.main = "tick_delay"
  /\ scd' = [scd EXCEPT !.main = "prompt",
                        !.wait_delay = update_delay_with_ema_value(scd.value)]
  /\ Quiet

\* quit: stop_delta_server sets to_be_stopped and waits for is_stopped, at
\* most five seconds.
Quit ==
  /\ scd.main = "prompt"
  /\ scd' = [scd EXCEPT !.main = "stopping", !.to_be_stopped = TRUE]
  /\ Quiet

\* A stop that waits for is_stopped without timeout.
StopReturns_without_timeout ==
  /\ scd.main = "stopping"
  /\ scd.is_stopped
  /\ scd' = [scd EXCEPT !.main = "exited"]
  /\ Quiet

StopReturns ==
  /\ scd.main = "stopping"
  /\ scd' = [scd EXCEPT !.main = "exited"]
  /\ Quiet

\* The scheduler alone: commands that leave the cache alone, a change feed
\* that reports nothing or fails.
NextSched ==
  \/ \E dt \in Intervals : Elapse(dt)
  \/ LoopEnter
  \/ \E fails \in BOOLEAN : LoopGetDiffs(<<>>, fails)
  \/ LoopProcess
  \/ LoopReinit
  \/ LoopWait
  \/ LoopReadTick
  \/ LoopUpdateDelay
  \/ LaunchRetrieve
  \/ \E page \in {p \in Pages(ROOT_ID) : p.fail} : LaunchPage(page)
  \/ FgAcquire
  \/ FgQuiet
  \/ FgRelease
  \/ TickRead
  \/ TickValue
  \/ TickDelay

SpecSched == Init /\ [][NextSched]_vars

\* The loop thread beside the shell: launch, commands under the lock, quit,
\* and a change feed that reports nothing or one item, or fails.  The root
\* lists no children at launch; no time passes.
LoopBatches == {b \in Batches : Len(b) <= 1}

LoopPages == {p \in Pages(ROOT_ID) : Len(p.items) = 0}

NextLoop ==
  \/ LoopEnter
  \/ \E batch \in LoopBatches, fails \in BOOLEAN : LoopGetDiffs(batch, fails)
  \/ LoopProcess
  \/ LoopReinit
  \/ LoopWait
  \/ LoopReadTick
  \/ LoopUpdateDelay
  \/ LoopExit
  \/ LaunchRetrieve
  \/ \E page \in LoopPages : LaunchPage(page)
  \/ FgAcquire
  \/ FgQuiet
  \/ \E f \in 1..Len(heap), n \in Names, id \in FolderIds, created \in BOOLEAN :
       FgMkdir(f, n, id, created)
  \/ FgRelease
  \/ TickRead
  \/ TickValue
  \/ TickDelay
  \/ Quit
  \/ StopReturns

SpecLoop == Init /\ [][NextLoop]_vars

\* The loop thread runs when it can, with a change feed that fails, is
\* empty or reports the deletion of file X: between two cycles each of its
\* steps that stays possible is taken (the wait has a timeout), a command
\* that has started ends, and the lock, which the shell thread releases
\* after every command to wait for input, is obtained at some time.
FairBatches ==
  {b \in LoopBatches : b = <<>> \/ (b[1].id = "X" /\ b[1].deleted)}

LoopBetweenCycles ==
  \/ LoopReinit
  \/ LoopWait
  \/ LoopReadTick
  \/ LoopUpdateDelay
  \/ LoopExit

\* The first prompt of launch, before the loop thread has run.
InitPrompt == ListedCache /\ scd = [ScdInit EXCEPT !.main = "prompt"]

NextFair ==
  \/ LoopEnter
  \/ \E batch \in FairBatches, fails \in BOOLEAN : LoopGetDiffs(batch, fails)
  \/ LoopProcess
  \/ LoopBetweenCycles
  \/ FgAcquire
  \/ FgQuiet
  \/ FgRelease
  \/ TickRead
  \/ TickValue
  \/ TickDelay
  \/ Quit
  \/ StopReturns

SpecFair ==
  /\ InitPrompt
  /\ [][NextFair]_vars
  /\ WF_vars(LoopBetweenCycles)
  /\ WF_vars(FgQuiet \/ FgRelease)
  /\ SF_vars(LoopEnter)

\* The same threads where nothing is assumed of the loop thread, which may
\* stay inside a fetch or in front of the lock for ever: only the wait of
\* stop() is known to end, by the event or by its timeout of five seconds.
SpecStop ==
  /\ InitPrompt
  /\ [][NextFair]_vars
  /\ WF_vars(StopReturns)

\* The two threads around the global lock.  A command line or a completion
\* request reaches "with self.global_lock" and waits there; the command
\* ends normally or raises.  A cycle that has the lock ends (its remote
\* calls return), a command that has the lock ends, a wait of the loop
\* runs out, and a thread blocked on the lock obtains it at some time
\* after a release.
FgTyped ==
  /\ scd.main = "prompt"
  /\ scd' = [scd EXCEPT !.main = "acquire"]
  /\ Quiet

FgAcquired ==
  /\ scd.main = "acquire"
  /\ scd.lock = "free"
  /\ scd' = [scd EXCEPT !.main = "cmd", !.lock = "main"]
  /\ Quiet

\* do_action or the completer raises inside the with block.
FgRaises ==
  /\ scd.main = "cmd"
  /\ scd' = [scd EXCEPT !.main = "release"]
  /\ last' = [NoLast EXCEPT !.op = "quiet", !.err = TRUE]
  /\ UNCHANGED <<heap, dictmap, fg, nops>>

\* A cycle whose fetch fails or reports no change.
LoopCycle ==
  \/ \E fails \in BOOLEAN : LoopGetDiffs(<<>>, fails)
  \/ LoopProcess

FgCommand == FgQuiet \/ FgRaises \/ FgRelease

NextLive ==
  \/ LoopEnter
  \/ LoopCycle
  \/ LoopBetweenCycles
  \/ FgTyped
  \/ FgAcquired
  \/ FgCommand
  \/ TickRead
  \/ TickValue
  \/ TickDelay
  \/ Quit
  \/ StopReturns

SpecLive ==
  /\ InitPrompt
  /\ [][NextLive]_vars
  /\ WF_vars(LoopCycle)
  /\ WF_vars(LoopBetweenCycles)
  /\ WF_vars(FgCommand)
  /\ SF_vars(LoopEnter)
  /\ SF_vars(FgAcquired)

\* ------------------------------- add_or_get_update beside a remove
\* add_or_get_update(obj), first statement: the test
\* "obj.ms_id in __dict_already_discovered_object", made without
\* __lock_dict.
RaceTest(id) ==
  /\ scd.add_pc = "idle"
  /\ nops < MaxOps
  /\ scd' = [scd EXCEPT !.add_pc = "tested", !.add_id = id,
                        !.add_found = dictmap[id] # None]
  /\ nops' = nops + 1
  /\ UNCHANGED <<heap, dictmap, fg, last>>

\* add_or_get_update(obj), the branch the test chose: the lookup
\* __dict_already_discovered_object[obj.ms_id] and the merge, or the
\* insertion.  The lookup of an id that is no key any more raises KeyError.
RaceFinish(d) ==
  /\ scd.add_pc = "tested"
  /\ d.id = scd.add_id
  /\ IF scd.add_found /\ dictmap[d.id] = None
     THEN /\ last' = [NoLast EXCEPT !.op = "add", !.err = TRUE]
          /\ UNCHANGED <<heap, dictmap>>
     ELSE IF ~scd.add_found /\ dictmap[d.id] # None
     THEN Commit([Alloc(Cache, NewObj(d, None, FALSE))
                    EXCEPT !.dict[d.id] = AllocAddr(Cache)],
                 [NoLast EXCEPT !.op = "add", !.a = AllocAddr(Cache),
                                !.b = AllocAddr(Cache)])
     ELSE DictAdded(Alloc(Cache, NewObj(d, None, FALSE)), AllocAddr(Cache))
  /\ scd' = [scd EXCEPT !.add_pc = "idle"]
  /\ UNCHANGED <<fg, nops>>

\* DictMsObject.remove(ms_id) by another thread, under __lock_dict.
RaceRemove(id) ==
  /\ dictmap[id] # None
  /\ Commit(DictMsObject_remove(Cache, id),
            [NoLast EXCEPT !.op = "remove", !.a = dictmap[id]])
  /\ UNCHANGED <<fg, nops, scd>>

NextRace ==
  \/ \E id \in Ids \ {ROOT_ID} : RaceTest(id)
  \/ \E d \in Candidates : RaceFinish(d)
  \/ \E id \in Ids \ {ROOT_ID} : RaceRemove(id)

SpecRace == Init /\ [][NextRace]_vars

\* ------------------------------------------- process_diffs, item by item
\* The four map() calls of process_diffs, in the order of the code.
PhaseOrder_folders_first == <<"folder", "delete", "file", "parentship">>

PhaseOrder == <<"delete", "file", "folder", "parentship">>

\* Largest batch followed item by item.
MaxPhaseBatch == 3

\* Items about folder A and file X, below the root or below A.
PhaseItems ==
  {x \in DeltaItems :
     /\ x.id \in {"A", "X"}
     /\ x.parent_id \in {ROOT_ID, "A"} \ {x.id}
     /\ x.d.error \/ (x.d.name = "a" /\ x.d.childCount = 0)}

PhaseBatches == SeqsUpTo(PhaseItems, MaxPhaseBatch)

\* The list a map() call of process_diffs runs over.
PhaseList(name, items, pend) ==
  IF name = "delete" THEN SelectSeq(items, IsDeleted)
  ELSE IF name = "file" THEN SelectSeq(items, IsFileUpsert)
  ELSE IF name = "folder" THEN SelectSeq(items, IsFolderUpsert)
  ELSE pend

\* One call of the mapped function: the cache and the pending list after.
PhaseCall(name, s, item) ==
  IF name = "delete" THEN [s EXCEPT !.c = process_diff_delete(s.c, item)]
  ELSE IF name = "file" THEN process_diff_file(s, item)
  ELSE IF name = "folder" THEN process_diff_folder(s, item)
  ELSE [s EXCEPT !.c = process_parentship(s.c, item)]

\* What the log keeps of a handled item: the phase and the object.
Handled(name, item) ==
  IF name = "parentship" THEN <<name, heap[item[1]].ms_id>>
  ELSE <<name, item.id>>

\* process_diffs is entered with the fetched batch.
PhaseBegin(batch) ==
  /\ scd.phase = 0
  /\ fg.op = "idle"
  /\ nops < MaxOps
  /\ batch # <<>>
  /\ scd' = [scd EXCEPT !.items = batch, !.phase = 1, !.pend = <<>>,
                        !.applied = <<>>,
                        !.rest = PhaseList(PhaseOrder[1], batch, <<>>)]
  /\ last' = SyncRecord(batch)
  /\ nops' = nops + 1
  /\ UNCHANGED <<heap, dictmap, fg>>

\* The next item of the running map() call; an exception leaves
\* process_diffs.
PhaseStepped(name, s) ==
  /\ Acyclic(s.c.heap)
  /\ Commit(s.c, last)
  /\ scd' = IF s.c.err
            THEN [scd EXCEPT !.phase = 0, !.rest = <<>>, !.pend = <<>>,
                             !.items = <<>>]
            ELSE [scd EXCEPT !.rest = Tail(@), !.pend = s.pend,
                             !.applied =
                                Append(@, Handled(name, Head(scd.rest)))]

PhaseStep ==
  /\ scd.phase > 0
  /\ scd.rest # <<>>
  /\ PhaseStepped(PhaseOrder[scd.phase],
                  PhaseCall(PhaseOrder[scd.phase],
                            [c |-> Cache, pend |-> scd.pend],
                            Head(scd.rest)))
  /\ UNCHANGED <<fg, nops>>

\* A map() call is over and the next one starts.
PhaseAdvance ==
  /\ scd.phase > 0
  /\ scd.phase < Len(PhaseOrder)
  /\ scd.rest = <<>>
  /\ scd' = [scd EXCEPT
               !.phase = @ + 1,
               !.rest = PhaseList(PhaseOrder[scd.phase + 1], scd.items,
                                  scd.pend)]
  /\ Quiet

\* process_diffs returns: the pending list is dropped, reinit() empties
\* the buffer.
PhaseEnd ==
  /\ scd.phase = Len(PhaseOrder)
  /\ scd.rest = <<>>
  /\ Commit(Collect(Cache), last)
  /\ scd' = [scd EXCEPT !.phase = 0, !.pend = <<>>, !.items = <<>>]
  /\ UNCHANGED <<fg, nops>>

NextPhases ==
  \/ \E batch \in PhaseBatches : PhaseBegin(batch)
  \/ PhaseStep
  \/ PhaseAdvance
  \/ PhaseEnd

SpecPhases == InitListed /\ [][NextPhases]_vars

\* ---------------------------------------- retrieve_children_info, whole
\* The call with its nested calls, against a remote drive that answers a
\* listing request for a folder id, from the id or from a link, with a
\* fixed page: scd.mgc[id][link].  s is the pair of the cache and the
\* number n of listing requests sent so far; no request is sent beyond
\* MaxRequests.
MaxRequests == 6

DeepDesc(id) ==
  Desc(id, IF id \in {"A", "Y"} THEN "a" ELSE "b", 1,
       IF KindOf(id) = "folder" THEN MaxChildCount ELSE 0, "t1", HashOf(id))

DeepPages(ids) ==
  {[fail |-> FALSE, items |-> it, next |-> nx] :
     it \in {<<>>} \cup {<<DeepDesc(i)>> : i \in ids},
     nx \in Links \cup {None}}
  \cup {[fail |-> TRUE, items |-> <<>>, next |-> None]}

LinkOrNone == Links \cup {None}

Remotes ==
  {[id \in FolderRefs |->
      [l \in LinkOrNone |->
         IF id = ROOT_ID THEN (IF l = None THEN r0 ELSE r1)
         ELSE (IF l = None THEN a0 ELSE a1)]] :
     r0 \in DeepPages({"A", "X"}), r1 \in DeepPages({"A", "Y"}),
     a0 \in DeepPages({"P"}), a1 \in DeepPages({"Y"})}

RECURSIVE retrieve_children_info(_, _, _, _, _)
RECURSIVE RetrieveDeepEntries(_, _, _, _, _, _)

\* The body of the loop over the entries: a folder entry taken while
\* retrieval has not started is listed in turn when recursive is set.
RetrieveDeepEntry(s, f, d, recursive, depth, max_retrieved_children) ==
  IF s.c.err THEN s
  ELSE IF ~children_retrieval_has_started(s.c.heap[f]) /\ d.kind = "folder"
  THEN LET fi == FromMgcResponse(s.c, Under(s.c, f, d), f, FALSE)
       IN IF recursive /\ ~AddResult(fi, f).err
          THEN retrieve_children_info([s EXCEPT !.c = AddResult(fi, f)],
                                      fi.res, recursive, depth - 1,
                                      max_retrieved_children)
          ELSE [s EXCEPT !.c = AddResult(fi, f)]
  ELSE [s EXCEPT !.c = RetrieveEntry(s.c, f, d)]

RetrieveDeepEntries(s, f, items, recursive, depth, mx) ==
  IF items = <<>> THEN s
  ELSE RetrieveDeepEntries(
         RetrieveDeepEntry(s, f, Head(items), recursive, depth, mx),
         f, Tail(items), recursive, depth, mx)

\* The page is applied, the status set, and the tail call made when its
\* test holds (mx: max_retrieved_children, start:
\* nb_retrieved_children_start).
RetrieveDeepPage(s, f, page, recursive, depth, mx, start) ==
  LET s1 == RetrieveDeepEntries(
              [s EXCEPT !.c.heap[f].next_link = page.next],
              f, page.items, recursive, depth, mx)
      s2 == [s1 EXCEPT !.c = SetStatus(s1.c, f, page.next)]
  IN IF ~s2.c.err /\ MustContinue(s2.c.heap[f], mx, start)
     THEN retrieve_children_info(s2, f, recursive, depth, mx)
     ELSE s2

retrieve_children_info(s, f, recursive, depth, max_retrieved_children) ==
  IF s.c.err \/ s.n > MaxRequests THEN s
  ELSE IF depth >= 0 /\ MustFetch(s.c.heap[f], max_retrieved_children)
  THEN LET page == scd.mgc[s.c.heap[f].ms_id][s.c.heap[f].next_link]
       IN IF page.fail THEN [s EXCEPT !.n = @ + 1]
          ELSE RetrieveDeepPage([s EXCEPT !.n = @ + 1], f, page, recursive,
                                depth, max_retrieved_children,
                                get_nb_retrieved_children(s.c.heap[f]))
  ELSE s

\* ls -r and the like: one call of retrieve_children_info with its
\* arguments.
DeepRetrieve(f, recursive, depth, mx) ==
  /\ fg.op = "idle"
  /\ nops < MaxOps
  /\ f \in 1..Len(heap)
  /\ heap[f].kind = "folder"
  /\ LET s == retrieve_children_info([c |-> Cache, n |-> 0], f, recursive,
                                     depth, mx)
     IN Commit(Collect(s.c),
               [NoLast EXCEPT !.op = "retrieve_children_info", !.a = f,
                              !.calls = s.n, !.depth = depth, !.max = mx])
  /\ nops' = nops + 1
  /\ UNCHANGED <<fg, scd>>

Depths == {-1, 0, 1}

InitDeep ==
  /\ \E d \in RootDescs : Built(FromMgcResponse(EmptyCache, d, None, FALSE))
  /\ fg = Idle
  /\ nops = 0
  /\ last = NoLast
  /\ \E m \in Remotes : scd = [ScdInit EXCEPT !.mgc = m]

NextDeep ==
  \E f \in 1..Len(heap), recursive \in BOOLEAN, depth \in Depths,
     mx \in {1, DEFAULT_MAX_CHILDREN} :
    DeepRetrieve(f, recursive, depth, mx)

SpecDeep == InitDeep /\ [][NextDeep]_vars

\* The shell after launch has listed the root: listings, mv and rm.
InitShell ==
  /\ \E d \in RootDescs, page \in InitPages :
       /\ Len(page.items) = d.childCount
       /\ Launched(Collect(ApplyPage(
                     FromMgcResponse(EmptyCache, d, None, FALSE).c,
                     root_folder, page)))
  /\ fg = Idle
  /\ nops = 0
  /\ last = NoLast
  /\ scd = ScdInit

NextShell ==
  \/ \E f \in 1..Len(heap), mx \in {1, DEFAULT_MAX_CHILDREN} :
       RetrieveBegin(f, mx) /\ UNCHANGED scd
  \/ /\ fg.op = "retrieve"
     /\ \E page \in Pages(heap[fg.f].ms_id) : RetrievePage(page)
     /\ UNCHANGED scd
  \/ \E ls \in 1..Len(heap), ld \in 1..Len(heap), rs \in Names,
        rd \in Names \cup {""}, r \in BOOLEAN :
       Mv(ls, rs, ld, rd, r) /\ UNCHANGED scd
  \/ \E f \in 1..Len(heap), n \in Names, r \in BOOLEAN :
       Rm(f, n, r) /\ UNCHANGED scd

SpecShell == InitShell /\ [][NextShell]_vars

\* Synchronisation cycles whose batch reports both files below the root,
\* as the server does after names changed among them: the names the batch
\* leaves to the two files differ.  The root was listed with children of
\* different names.
MergeBatches ==
  {b \in SeqsUpTo({x \in DeltaItems : x.id \in FileIds /\ ~x.deleted
                                        /\ x.parent_id = ROOT_ID}, MaxBatch) :
     /\ {b[i].id : i \in 1..Len(b)} = FileIds
     /\ \A i, j \in 1..Len(b) : b[i].d.name = b[j].d.name => i = j}

InitMerge ==
  /\ InitListed
  /\ \A i, j \in 1..Len(heap) : heap[i].name = heap[j].name => i = j

NextMerge == \E batch \in MergeBatches : SyncCycle(batch) /\ UNCHANGED scd

SpecMerge == InitMerge /\ [][NextMerge]_vars

\* process_diffs followed from its three filters on, over batches that
\* also report remote objects that are neither file nor folder (an item
\* with the 'package' facet only).
PackageItems ==
  UNION {{[id |-> i, kind |-> "other", deleted |-> FALSE, root |-> FALSE,
           parent_id |-> ROOT_ID, d |-> d] : d \in ItemDescs(i)} :
         i \in OtherIds}

ClassifyItems ==
  {x \in DeltaItems : ~x.root /\ x.parent_id = ROOT_ID} \cup PackageItems

ClassifyBatches == SeqsUpTo(ClassifyItems, MaxBatch) \ {<<>>}

\* get_diffs has accumulated the batch.
ClassifyFetched(batch) ==
  /\ fg.op = "idle"
  /\ nops < MaxOps
  /\ scd.items = <<>>
  /\ scd' = [scd EXCEPT !.items = batch]
  /\ UNCHANGED <<heap, dictmap, fg, nops, last>>

\* The three filters of process_diffs.
Classified ==
  /\ scd.items # <<>>
  /\ scd.lists = <<>>
  /\ scd' = [scd EXCEPT !.lists = <<SelectSeq(scd.items, IsDeleted),
                                    SelectSeq(scd.items, IsFolderUpsert),
                                    SelectSeq(scd.items, IsFileUpsert)>>]
  /\ UNCHANGED <<heap, dictmap, fg, nops, last>>

\* The four map() calls over the filtered lists, then reinit().
ClassifiedApplied ==
  /\ scd.lists # <<>>
  /\ Synced(Collect(process_diffs(Cache, scd.items)), SyncRecord(scd.items))
  /\ nops' = nops + 1
  /\ scd' = [scd EXCEPT !.items = <<>>, !.lists = <<>>]
  /\ UNCHANGED fg

NextClassify ==
  \/ \E batch \in ClassifyBatches : ClassifyFetched(batch)
  \/ Classified
  \/ ClassifiedApplied

\* The cache after construction, MaxCycles cycles ahead.
InitClassify ==
  /\ \E d \in RootDescs : Built(FromMgcResponse(EmptyCache, d, None, FALSE))
  /\ fg = Idle
  /\ nops = MaxOps - MaxCycles
  /\ last = NoLast
  /\ scd = ScdInit

SpecClassify == InitClassify /\ [][NextClassify]_vars

\* The estimator alone, in time units fine enough for MaxTicks ticks to be
\* computed without rounding: value, since and wait_delay are counted in
\* 10^-(MaxTicks+1) seconds; log keeps the elapsed interval of each tick.
MaxTicks == 3

Second == 10 ^ (MaxTicks + 1)

\* Intervals between two commands: 0.1 s, 0.5 s, 0.9 s, 10 s, 20 s, 10 min.
EmaIntervals ==
  {Second \div 10, Second \div 2, (9 * Second) \div 10,
   10 * Second, 20 * Second, 600 * Second}

\* update_delay_with_ema_value on values counted in 1/unit seconds.
update_delay_in(unit, ema_value) ==
  IF ema_value * COEF_DELAY < MIN_WAIT_DELAY * unit THEN MIN_WAIT_DELAY * unit
  ELSE IF ema_value * COEF_DELAY > MAX_WAIT_DELAY * unit
       THEN MAX_WAIT_DELAY * unit
       ELSE ema_value * COEF_DELAY

InitEma ==
  /\ \E d \in RootDescs : Built(FromMgcResponse(EmptyCache, d, None, FALSE))
  /\ fg = Idle
  /\ nops = 0
  /\ last = NoLast
  /\ scd = [ScdInit EXCEPT !.value = EMA_START * Second,
                           !.wait_delay = START_WAIT_DELAY * Second]

\* time.time() advances between two commands.
EmaElapse(dt) ==
  /\ scd.since = 0
  /\ Len(scd.log) < MaxTicks
  /\ scd' = [scd EXCEPT !.since = dt]
  /\ Quiet

\* ServerCheckDelta.tick: EMA.tick, then update_delay_with_ema_value.
EmaTick ==
  /\ scd.since > 0
  /\ scd' = [scd EXCEPT
               !.since = 0,
               !.value = Ema(scd.since, scd.value),
               !.wait_delay = update_delay_in(Second, Ema(scd.since, scd.value)),
               !.log = Append(@, scd.since)]
  /\ Quiet

NextEma ==
  \/ \E dt \in EmaIntervals : EmaElapse(dt)
  \/ EmaTick

SpecEma == InitEma /\ [][NextEma]_vars

\* The loop thread alone, with get_diffs followed request by request.
NextFeed ==
  \/ LoopEnter
  \/ GetDiffsBegin
  \/ \E r \in FeedResponses(scd.query_string) : GetDiffsRequest(r)
  \/ GetDiffsPage
  \/ LoopProcess
  \/ LoopReinit
  \/ LoopWait
  \/ LoopReadTick
  \/ LoopUpdateDelay

SpecFeed == InitListed /\ [][NextFeed]_vars


\* ------------------------------------------------------------------ claims
Idle_ == fg.op = "idle"

Folders(h) == {a \in 1..Len(h) : h[a].kind = "folder"}

\* The instances a folder's three child lists and name maps refer to.
ChildrenOf(o) ==
  UNION {Range(o.ch[k]) : k \in Kinds}
    \cup ({o.dc[k][n] : k \in Kinds, n \in Names} \ {None})

\* C1: every object found in a folder's child collections is the instance
\* the identity map returns for its id, so no two instances with one id are
\* referenced from the tree.
C1_Uniqueness ==
  \A f \in Folders(heap) : \A a \in ChildrenOf(heap[f]) :
     dictmap[heap[a].ms_id] = a

\* The mutable attributes add_or_get_update overwrites from the candidate.
Merged(o, cand) ==
  /\ o.name = cand.name
  /\ o.size = cand.size
  /\ o.lmdt = cand.lmdt
  /\ o.cdt = cand.cdt
  /\ o.kind = "file" => o.qxh = cand.qxh /\ o.sha1hash = cand.sha1hash
  /\ o.kind = "folder" => o.child_count = cand.child_count

\* C2: add_or_get_update returns the registered instance, overwritten from
\* the candidate, when the candidate's id is registered, for a candidate of
\* any kind; otherwise it registers and returns the candidate.  The instance
\* registered for an id is never replaced while the id stays registered.
C2_AddOrGetUpdate ==
  [][last'.op = "add" =>
       LET cand == heap'[last'.b]
           old == dictmap[cand.ms_id]
       IN IF old # None
          THEN /\ last'.a = old
               /\ dictmap'[cand.ms_id] = old
               /\ Merged(heap'[old], cand)
          ELSE /\ last'.a = last'.b
               /\ dictmap'[cand.ms_id] = last'.b]_vars

\* The instances alive in the cache.
Objects(h) == {a \in 1..Len(h) : h[a].kind # "free"}

\* Number of f's child lists a occurs in.
NbListsHolding(o, a) == Cardinality({k \in Kinds : a \in Range(o.ch[k])})

\* C3: at a lock boundary, for every folder F and object C, C.parent is F
\* if and only if C appears in exactly one of F's three child collections.
C3_Bidirectional ==
  Idle_ =>
    \A f \in Folders(heap) : \A a \in Objects(heap) :
       heap[a].parent = f <=> NbListsHolding(heap[f], a) = 1

RECURSIVE SumSizes(_, _)
SumSizes(h, S) ==
  IF S = {} THEN 0
  ELSE LET a == CHOOSE x \in S : TRUE
       IN h[a].size + SumSizes(h, S \ {a})

\* The files and packages known below folder f.
KnownDescendants(h, f) == {a \in Below(h, {f}) : h[a].kind # "folder"}

Ancestors(h, p) == Range(ParentChain(h, p, Len(h)))

\* What a command adds to the size of folder f when it takes the object of
\* size sz away from parent old and attaches it to parent new (None: none).
SizeDelta(h, f, sz, old, new) ==
  (IF new # None /\ f \in Ancestors(h, new) THEN sz ELSE 0)
    - (IF old # None /\ f \in Ancestors(h, old) THEN sz ELSE 0)

InLists(o, a) == \E k \in Kinds : a \in Range(o.ch[k])

\* Batches made of one upsert that is neither the root's nor a fetch error.
UpsertBatches ==
  {b \in Batches : Len(b) = 1 /\ ~b[1].deleted /\ ~b[1].root /\ ~b[1].d.error}

\* The step is the cycle that applies batch.
Applies(batch) ==
  /\ last'.op = "sync"
  /\ last'.name = batch[1].id
  /\ last'.calls = Len(batch)
  /\ SyncCycle(batch)

\* The object the batch is about is known and held by its parent.
KnownAttached(batch) ==
  /\ dictmap[batch[1].id] # None
  /\ heap[dictmap[batch[1].id]].parent # None
  /\ InLists(heap[heap[dictmap[batch[1].id]].parent], dictmap[batch[1].id])

\* The upsert declares a known folder that is not the object's parent.
Reparents(batch) ==
  /\ KnownAttached(batch)
  /\ dictmap[batch[1].parent_id] # None
  /\ dictmap[batch[1].parent_id] # heap[dictmap[batch[1].id]].parent

Evicts(batch) ==
  /\ KnownAttached(batch)
  /\ dictmap[batch[1].parent_id] = None

RecreateBatches ==
  {b \in Batches :
     /\ Len(b) = 2
     /\ Len(SelectSeq(b, IsDeleted)) = 1
     /\ \A i \in 1..2 : ~b[i].deleted => ~b[i].root /\ ~b[i].d.error}

UpsertOf(batch) == IF batch[1].deleted THEN batch[2] ELSE batch[1]

DeleteOf(batch) == IF batch[1].deleted THEN batch[1] ELSE batch[2]

\* The attributes of the upsert's descriptor d are those of instance o.
Carries(o, d) ==
  /\ o.name = d.name /\ o.size = d.size
  /\ o.lmdt = d.lmdt /\ o.cdt = d.cdt
  /\ o.kind = "file" => o.qxh = d.qxh /\ o.sha1hash = d.sha1hash
  /\ o.kind = "folder" => o.child_count = d.childCount

\* C7: a batch with a deletion of a known id (deleted where the cache
\* holds it) and an upsert of the same id under a known parent leaves the
\* id registered, attached under the declared parent, with the upsert's
\* attributes, in either order of the two items.
C7_DeleteThenRecreate ==
  [][\A batch \in RecreateBatches :
       (/\ KnownAttached(batch)
        /\ dictmap[UpsertOf(batch).parent_id] # None
        /\ DeleteOf(batch).parent_id =
             heap[heap[dictmap[batch[1].id]].parent].ms_id
        /\ Applies(batch)) =>
         LET B == dictmap[UpsertOf(batch).parent_id]
             x == dictmap'[batch[1].id]
         IN /\ x # None
            /\ heap'[x].parent = B
            /\ InLists(heap'[B], x)
            /\ Carries(heap'[x], UpsertOf(batch).d)]_vars

\* C8: retrieve_children_info on a folder whose retrieval is complete sends
\* no listing request, whatever its childCount and max_retrieved_children,
\* also when it holds fewer children than childCount reports.
C8_CompleteIsNotFetched ==
  [][(/\ last'.op = "retrieve"
      /\ nops' = nops + 1
      /\ children_retrieval_is_completed(heap[last'.a]))
       => fg'.op = "idle"]_vars

Rank(status) == IF status = "all" THEN 2 ELSE IF status = "partial" THEN 1 ELSE 0

\* C9: the retrieval status of a folder instance only moves from not
\* started to partial to complete, never back.
C9_StatusMonotonic ==
  [][\A f \in Folders(heap) :
       (f <= Len(heap') /\ heap'[f].kind = "folder")
         => Rank(heap[f].status) <= Rank(heap'[f].status)]_vars

\* Every folder whose retrieval is complete holds at most childCount children.
WithinChildCount(h) ==
  \A f \in Folders(h) :
     children_retrieval_is_completed(h[f])
       => get_nb_retrieved_children(h[f]) <= h[f].child_count

FileUpsertBatches == {b \in UpsertBatches : b[1].kind = "file"}

\* C10: at a lock boundary every complete folder holds at most childCount
\* children; the bound that holds before a synchronisation cycle attaches
\* or detaches a file still holds after it.
C10_ChildCountBound ==
  [][\A batch \in FileUpsertBatches :
       (WithinChildCount(heap) /\ Applies(batch)) => WithinChildCount(heap')]_vars

\* C11: in every state, whatever the tick intervals and however tick() of
\* the shell thread interleaves with the loop's own update, the delay the
\* loop waits on lies within [15 s, 300 s], the starting delay included.
C11_DelayWithinBounds ==
  /\ MIN_WAIT_DELAY <= scd.wait_delay
  /\ scd.wait_delay <= MAX_WAIT_DELAY

\* The loop waits on the longest delay after a command has ticked.
C11_Witness ==
  /\ scd.pc = "wait"
  /\ scd.wait_delay = MAX_WAIT_DELAY
  /\ scd.value # EMA_START

NamedFolders == ResolvableFolders(heap) \ {root_folder}

InCycle == scd.pc \in {"get_diffs", "process"}

\* A foreground activity that mutates or populates the cache is running:
\* the initial retrieval of launch, or a command.
InForeground == scd.main \in {"launching", "cmd", "release"}

\* C13: no foreground activity runs while a cycle is between its start and
\* the end of its reparenting phase, and every foreground activity holds
\* the global lock.
C13_MutualExclusion ==
  /\ ~(InCycle /\ InForeground)
  /\ InForeground => scd.lock = "main"

\* The position of a phase in a cycle.
PhaseRank(name) ==
  IF name = "delete" THEN 1 ELSE IF name = "file" THEN 2
  ELSE IF name = "folder" THEN 3 ELSE 4

\* The handled items of a phase so far in the running cycle.
Done(name) == {i \in DOMAIN scd.applied : scd.applied[i][1] = name}

\* C14: in a running cycle the handled items appear in the order deletions,
\* file upserts, folder upserts, parent changes; an upsert is handled only
\* when every deletion of the batch is, and a parent change is applied only
\* when every upsert of the batch is.
C14_PhasesOrdered ==
  scd.phase > 0 =>
    /\ \A i, j \in DOMAIN scd.applied :
          i < j => PhaseRank(scd.applied[i][1]) <= PhaseRank(scd.applied[j][1])
    /\ Done("file") \cup Done("folder") # {} =>
          Cardinality(Done("delete")) = Len(SelectSeq(scd.items, IsDeleted))
    /\ Done("folder") # {} =>
          Cardinality(Done("file")) = Len(SelectSeq(scd.items, IsFileUpsert))
    /\ Done("parentship") # {} =>
          Cardinality(Done("folder"))
            = Len(SelectSeq(scd.items, IsFolderUpsert))

\* A cycle with a deletion, a file upsert and a folder upsert has reached
\* its parent changes.
C14_Witness ==
  /\ scd.phase > 0
  /\ \A name \in {"delete", "file", "folder", "parentship"} : Done(name) # {}

\* C15: once the stop signal is set the loop starts no new cycle, also when
\* the signal is set before the first cycle.
C15_NoCycleAfterStop ==
  [][scd.to_be_stopped => ~(scd.pc = "top" /\ scd'.pc = "get_diffs")]_vars

\* The step the loop takes after an exception was caught in a cycle.
AfterCaught ==
  /\ scd.pc = "reinit" =>
        scd.lock # "loop" /\ scd'.pc = "wait" /\ scd'.items = <<>>
  /\ scd.pc = "wait" =>
        /\ scd'.pc = IF scd.to_be_stopped THEN "break"
                     ELSE "value_if_ticked_now"
        /\ scd.items = <<>>
        /\ scd.wait_delay \in MIN_WAIT_DELAY..MAX_WAIT_DELAY
  /\ scd.pc = "value_if_ticked_now" => scd'.pc = "update_delay"
  /\ scd.pc = "update_delay" => scd'.pc = "top"

Parentless ==
  {i \in Ids : dictmap[i] # None /\ heap[dictmap[i]].parent = None}

\* C18: when no cycle is running, exactly one registered object has no
\* parent, the root, with is_root set and the empty path; it stays
\* registered.
C18_OnlyRootHasNoParent ==
  scd.phase = 0 =>
    /\ Parentless = {ROOT_ID}
    /\ dictmap[ROOT_ID] = root_folder
    /\ heap[root_folder].is_root
    /\ path(heap, root_folder) = <<>>

\* The objects attached to the tree: those reached from the root through
\* the child collections.
Attached == Below(heap, {root_folder})

\* C19: the path of every object attached to the tree is the "/"-joined
\* names of its ancestors from the root down to it, the empty string for
\* the root.
C19_PathIsJoinedNames ==
  \A a \in Attached : path(heap, a) = RemotePath(heap, a)

\* C20: no remove interleaves between the membership test of
\* add_or_get_update and the lookup or insertion that follows it: while a
\* thread is between the two, the id it tested stays registered or stays
\* unregistered.
C20_AddIsAtomic ==
  [][scd.add_pc = "tested" /\ scd'.add_pc = "tested" =>
       (dictmap'[scd.add_id] = None) = (dictmap[scd.add_id] = None)]_vars

\* process_diffs is about to hand the deleted item at the head of its list
\* to __process_diff_delete.
DeletePending ==
  /\ scd.phase > 0
  /\ PhaseOrder[scd.phase] = "delete"
  /\ scd.rest # <<>>

\* The deleted item names a registered object and, as its parent, the
\* registered folder that holds it.
DeletesHeld(item) ==
  /\ dictmap[item.id] # None
  /\ dictmap[item.parent_id] # None
  /\ heap[dictmap[item.id]].parent = dictmap[item.parent_id]
  /\ dictmap[item.id] \in ChildrenOf(heap[dictmap[item.parent_id]])

NestedBatches ==
  {b \in SeqsUpTo(DeltaItems, 2) :
     /\ Len(b) = 2
     /\ \E i, j \in 1..2 :
          /\ IsFolderUpsert(b[i]) /\ b[i].id = "A"
          /\ b[i].parent_id = ROOT_ID /\ ~b[i].d.error
          /\ IsFileUpsert(b[j]) /\ b[j].id = "X"
          /\ b[j].parent_id = "A" /\ ~b[j].d.error
          /\ b[i].d.name # b[j].d.name}

\* The object with id c is registered and held by the registered folder
\* with id n in cache r.
AttachedUnder(r, c, n) ==
  /\ r.dict[n] # None
  /\ r.dict[c] # None
  /\ r.heap[r.dict[c]].parent = r.dict[n]
  /\ r.dict[c] \in ChildrenOf(r.heap[r.dict[n]])

\* C22: when neither folder A nor file X is known, a cycle over a batch
\* that upserts A under the root and X under A ends with X registered and
\* attached under A, whichever of the two items comes first.
C22_NestedUpsertAttached ==
  (dictmap["A"] = None /\ dictmap["X"] = None)
    => \A b \in NestedBatches :
         AttachedUnder(process_diffs(Cache, b), "X", "A")

\* The items of the batch that the map() calls after call number k run
\* over.
ItemsAfter(k) ==
  SelectSeq(scd.items,
            LAMBDA x : \/ k < 2 /\ IsFileUpsert(x)
                       \/ k < 3 /\ IsFolderUpsert(x))

\* C23: process_diffs is left only when nothing of the batch remains to be
\* applied: an item that raises does not keep the items after it, in its own
\* map() call or in the later ones, from being applied in that cycle.
C23_RestOfBatchApplied ==
  [][(scd.phase > 0 /\ scd'.phase = 0)
       => (Len(scd.rest) <= 1 /\ ItemsAfter(scd.phase) = <<>>)]_vars

\* process_diffs is about to hand __process_diff_folder an upsert whose
\* fetch by id fails.
FolderFetchFails ==
  /\ scd.phase > 0
  /\ PhaseOrder[scd.phase] = "folder"
  /\ scd.rest # <<>>
  /\ Head(scd.rest).d.error

\* C24: a folder upsert whose fetch by id fails is skipped: the objects,
\* their parent edges and the identity map stay as they were, no reparenting
\* entry is recorded, and process_diffs goes on with the item after it.
C24_FailedFetchIsSkipped ==
  [][FolderFetchFails =>
       /\ heap' = heap
       /\ dictmap' = dictmap
       /\ scd'.pend = scd.pend
       /\ scd'.phase = scd.phase
       /\ scd'.rest = Tail(scd.rest)
       /\ ~last'.err]_vars

\* The folder upserts of the running batch.
FolderUpserts == SelectSeq(scd.items, IsFolderUpsert)

\* The upsert of a known folder was skipped after its fetch failed, and a
\* folder upsert of the batch is still to be handled.
C24_Witness ==
  /\ scd.phase > 0
  /\ PhaseOrder[scd.phase] = "folder"
  /\ scd.rest # <<>>
  /\ Len(FolderUpserts) > Len(scd.rest)
  /\ FolderUpserts[Len(FolderUpserts) - Len(scd.rest)].d.error
  /\ dictmap[FolderUpserts[Len(FolderUpserts) - Len(scd.rest)].id] # None
  /\ ~Head(scd.rest).d.error

\* process_diffs is about to hand an upsert handler an item.
UpsertPending ==
  /\ scd.phase > 0
  /\ PhaseOrder[scd.phase] \in {"file", "folder"}
  /\ scd.rest # <<>>

\* Neither the item's id nor its declared parent is registered.
Orphan(item) ==
  /\ ~item.root
  /\ dictmap[item.id] = None
  /\ dictmap[item.parent_id] = None

\* C25: an upsert for an unknown id whose declared parent is unknown too
\* leaves the cache as it was: nothing is registered, no object changes
\* (the reference instance built for the item is freed again), and no
\* reparenting entry is recorded.
C25_OrphanUpsertIgnored ==
  [][(UpsertPending /\ Orphan(Head(scd.rest))) =>
       /\ Trim(heap') = Trim(heap)
       /\ dictmap' = dictmap
       /\ scd'.pend = scd.pend
       /\ ~last'.err]_vars

\* The items of the map() call that is running.
RunningList == PhaseList(PhaseOrder[scd.phase], scd.items, <<>>)

\* A file or folder upsert with unknown id and unknown parent, whose fetch
\* did not fail, was handled.
C25_Witness ==
  /\ scd.phase > 0
  /\ PhaseOrder[scd.phase] \in {"file", "folder"}
  /\ Len(RunningList) > Len(scd.rest)
  /\ ~RunningList[Len(RunningList) - Len(scd.rest)].d.error
  /\ Orphan(RunningList[Len(RunningList) - Len(scd.rest)])
  /\ scd.pend = <<>>

\* C26: the stored cursor changes only when the last page of a fetch is
\* handled, and then to the link returned with that page; every fetch
\* starts at the stored cursor.
C26_CursorFromFinalPage ==
  [][/\ (scd'.delta_link # scd.delta_link) =>
           (/\ scd.pc = "got"
            /\ ~scd.r.error
            /\ ~scd.r.next
            /\ scd'.delta_link = scd.r.link)
     /\ (scd.pc = "get_diffs" /\ scd'.pc = "get") =>
           (scd'.query_string = scd.delta_link)]_vars

\* A fetch that started at an advanced cursor failed after a continuation
\* page was appended: the cursor still is where the fetch started.
C26_Witness ==
  /\ scd.pc = "reinit"
  /\ scd.caught
  /\ scd.items # <<>>
  /\ scd.delta_link > 0
  /\ scd.items[1].pos = scd.delta_link
  /\ scd.query_string > scd.delta_link

\* C27: when the loop empties the buffer, every buffered change that the
\* stored cursor has moved past was applied: the buffer is not discarded
\* after an exception once the cursor is beyond its items.
C27_NoFetchedChangeLost ==
  [][(scd.pc = "reinit" /\ scd'.pc = "wait")
       => \A i \in 1..Len(scd.items) :
            scd.items[i].pos < scd.delta_link => ~scd.caught]_vars

\* Entry d of a listing page names nothing the folder at f holds and no
\* registered object.
FreshEntry(f, d) ==
  /\ dictmap[d.id] = None
  /\ \A k \in Kinds : heap[f].dc[k][d.name] = None

\* The folder at f of heap h holds an object with the id of entry d in
\* the collection of d's kind.
HoldsEntry(h, f, d) ==
  \E a \in Range(h[f].ch[d.kind]) : h[a].ms_id = d.id

\* C28: when a listing page brings the folder to Complete, every entry of
\* the page whose name the folder did not hold is in the folder's
\* collection of its kind, folder entries of a second or later page
\* included.
C28_ListedEntriesHeld ==
  [][fg.op = "retrieve" =>
       \A page \in Pages(heap[fg.f].ms_id) :
         (/\ RetrievePage(page)
          /\ ~page.fail
          /\ ~last'.err
          /\ heap'[fg.f].status = "all")
           => \A i \in 1..Len(page.items) :
                FreshEntry(fg.f, page.items[i])
                  => HoldsEntry(heap', fg.f, page.items[i])]_vars

\* The listing request of the running retrieve_children_info fails.
ListingFails ==
  /\ fg.op = "retrieve"
  /\ RetrievePage([fail |-> TRUE, items |-> <<>>, next |-> None])

\* C29: a listing failure ends retrieve_children_info without result and
\* leaves every object, the folder's collections, continuation cursor,
\* status and childCount among them, and the identity map as they were.
C29_ListingFailureKeepsFolder ==
  [][ListingFails =>
       /\ heap' = heap
       /\ dictmap' = dictmap
       /\ ~last'.ok
       /\ fg' = Idle]_vars

\* The request for the following page of a partly listed folder failed.
C29_Witness ==
  /\ last.op = "retrieve"
  /\ ~last.ok
  /\ fg = Idle
  /\ heap[last.a].status = "partial"
  /\ heap[last.a].next_link # None
  /\ get_nb_retrieved_children(heap[last.a]) > 0

\* A call of retrieve_children_info has returned.
Retrieved == last'.op = "retrieve_children_info" /\ nops' = nops + 1

\* The folder at a lies at most k levels below the folder at f in heap h.
RECURSIVE WithinLevels(_, _, _, _)
WithinLevels(h, a, f, k) ==
  /\ k >= 0
  /\ \/ a = f
     \/ h[a].parent # None /\ WithinLevels(h, h[a].parent, f, k - 1)

\* The retrieval status the folder at a had before the call: none for a
\* folder the call created.
StatusBefore(a) ==
  IF a <= Len(heap) /\ heap[a].kind = "folder" THEN heap[a].status
  ELSE "none"

\* C30: retrieve_children_info sends no request when its depth is used up
\* or when retrieval has started and the folder holds childCount or
\* max_retrieved_children children; whatever the remote answers, pages
\* without new child and never-ending continuation links included, it
\* returns after a bounded number of requests; and it lists no folder more
\* than depth levels below the one it was called on.
C30_RetrievalIsBounded ==
  [][Retrieved =>
       /\ ~(last'.depth >= 0 /\ MustFetch(heap[last'.a], last'.max))
            => (last'.calls = 0 /\ heap' = heap)
       /\ last'.calls <= MaxRequests
       /\ \A a \in 1..Len(heap') :
            (heap'[a].kind = "folder"
               /\ ~WithinLevels(heap', a, last'.a, last'.depth))
              => heap'[a].status = StatusBefore(a)]_vars

\* A recursive call of depth 0 listed a folder in two requests, the second
\* answered with a page that added nothing and carried a link again, and
\* left the subfolder it found unlisted.
C30_Witness ==
  /\ last.op = "retrieve_children_info"
  /\ last.depth = 0
  /\ last.calls = 2
  /\ heap[last.a].status = "partial"
  /\ heap[last.a].next_link # None
  /\ \E a \in Range(heap[last.a].ch["folder"]) : heap[a].status = "none"
  /\ scd.mgc[heap[last.a].ms_id][heap[last.a].next_link].items = <<>>

\* A mkdir whose remote call succeeded has run on the folder last'.a.
MkdirDone ==
  /\ last'.op = "mkdir"
  /\ nops' = nops + 1
  /\ last'.ok
  /\ ~last'.err

\* The ids the identity map holds.
Registered(d) == {i \in Ids : d[i] # None}

\* C31: a successful mkdir raises the parent's childCount by exactly one,
\* adds exactly one folder to the parent's folder collection and registers
\* exactly one new id.
C31_MkdirCountsOne ==
  [][MkdirDone =>
       /\ heap'[last'.a].child_count = heap[last'.a].child_count + 1
       /\ Len(heap'[last'.a].ch["folder"])
            = Len(heap[last'.a].ch["folder"]) + 1
       /\ Cardinality(Registered(dictmap') \ Registered(dictmap)) = 1
       /\ Registered(dictmap) \subseteq Registered(dictmap')]_vars

\* An mv whose remote call succeeded has moved the object last'.a to the
\* folder last'.b.
MvDone ==
  /\ last'.op = "mv"
  /\ nops' = nops + 1
  /\ last'.ok
  /\ ~last'.err

\* C32: after move_object the object's parent is the new parent, the
\* object is in the new parent's collection of its kind and, when the
\* parent changed, in no collection of the old one; each folder's size
\* changes by minus the object's size when it is on the old chain and by
\* plus the object's size when it is on the new chain; and the childCounts
\* of the old and the new parent add up to what they did.
C32_MoveObject ==
  [][MvDone =>
       LET obj == last'.a
           old == heap[obj].parent
           new == last'.b
       IN /\ heap'[obj].parent = new
          /\ obj \in Range(heap'[new].ch[heap[obj].kind])
          /\ old # new => ~InLists(heap'[old], obj)
          /\ \A f \in Folders(heap) \ {obj} :
               heap'[f].size = heap[f].size
                 + SizeDelta(heap, f, heap[obj].size, old, new)
          /\ heap'[old].child_count + heap'[new].child_count
               = heap[old].child_count + heap[new].child_count]_vars

\* The calls rename(new_name) that action_mv makes in the current state,
\* as pairs of the object and the new name: the source is a named child of
\* a folder whose listing has started, the destination names neither a
\* folder nor a file of its folder.
RenameCalls ==
  {call \in (1..Len(heap)) \X Names :
     /\ \E lfip_src \in CommandFolders(heap), rt_src \in Names :
          NamedObj(heap, lfip_src, rt_src) = call[1]
     /\ \E lfip_dst \in CommandFolders(heap) :
          /\ heap[lfip_dst].dc["folder"][call[2]] = None
          /\ heap[lfip_dst].dc["file"][call[2]] = None
     /\ heap[call[1]].parent # None
     /\ InLists(heap[heap[call[1]].parent], call[1])}

\* What rename promises about cache c, reached from the current one by
\* renaming obj to new_name.
Renamed(c, obj, new_name) ==
  LET p == heap[obj].parent
      k == heap[obj].kind
  IN /\ ~c.err
     /\ c.heap[p].dc[k][new_name] = obj
     /\ heap[obj].name # new_name => c.heap[p].dc[k][heap[obj].name] = None
     /\ Len(SelectSeq(c.heap[p].ch[k], LAMBDA x : x = obj)) = 1
     /\ c.heap[obj].parent = p
     /\ \A f \in Ancestors(heap, p) :
          /\ c.heap[f].size = heap[f].size
          /\ c.heap[f].child_count = heap[f].child_count

\* C33: after rename the owning folder finds the object under the new name
\* and nothing under the old one, holds it exactly once in its sequence,
\* is still its parent, and the sizes and childCounts of the parent and of
\* its ancestors are what they were.
C33_Rename ==
  fg.op = "idle" =>
    \A call \in RenameCalls :
       Renamed(rename(Cache, call[1], call[2]), call[1], call[2])

\* The objects a name map of folder o holds for kind k ('.' and '..' are
\* not keys of the model's maps).
Indexed(o, k) == {o.dc[k][n] : n \in Names} \ {None}

\* Map and sequence of kind k of folder f hold the same objects, each once
\* and under its current name.
SameObjects(h, f, k) ==
  /\ Indexed(h[f], k) = Range(h[f].ch[k])
  /\ \A i, j \in 1..Len(h[f].ch[k]) :
        h[f].ch[k][i] = h[f].ch[k][j] => i = j
  /\ \A a \in Range(h[f].ch[k]) :
        h[a].name \in Names /\ h[f].dc[k][h[a].name] = a

\* C34: at a lock boundary, for each folder and each kind the name map and
\* the ordered sequence hold exactly the same objects, each once and
\* indexed under its current name, also after a batch whose name merges
\* rename one child to a name another child of the folder held before.
C34_MapAndSequenceAgree ==
  (fg.op = "idle" /\ scd.phase = 0) =>
     \A f \in Folders(heap), k \in Kinds : SameObjects(heap, f, k)

\* The filtered lists of process_diffs that hold the item x.
ListsHolding(x) == {k \in 1..Len(scd.lists) : x \in Range(scd.lists[k])}

\* C35: once process_diffs has filtered the batch, every accumulated item
\* is in exactly one of the lists deleted, folder upserts, file upserts.
C35_ClassificationPartitions ==
  scd.lists # <<>> =>
     \A i \in 1..Len(scd.items) :
        Cardinality(ListsHolding(scd.items[i])) = 1

\* A tick has just been recorded.
Ticked == Len(scd'.log) = Len(scd.log) + 1

\* The first n ticks since the seed all came less than a second apart.
FastTicks(l, n) == Len(l) = n /\ \A i \in 1..n : l[i] < Second

\* What every tick does to the average, and what a long idle interval
\* does to the delay.
TickAverages ==
  /\ 10 * scd'.value = scd.since * 3 + scd.value * 7
  /\ scd.since < scd.value => scd'.value < scd.value
  /\ scd.since > scd.value => scd'.value > scd.value
  /\ scd.since >= 500 * Second => scd'.wait_delay = MAX_WAIT_DELAY * Second

\* C36 as stated: each tick replaces the average by elapsed*0.3 + avg*0.7
\* from the seed of 15 s, lowers it when the interval is below it, raises
\* it when above; two ticks less than a second apart from the seed bring
\* the delay to 15 s, a long idle interval brings it to 300 s.
C36_TwoFastTicksReachMinimum ==
  [][Ticked =>
       /\ TickAverages
       /\ FastTicks(scd'.log, 2) => scd'.wait_delay = MIN_WAIT_DELAY * Second
    ]_vars

\* C36, amended: the same, with three ticks less than a second apart
\* bringing the delay to 15 s; after two such ticks the delay is 15 s only
\* if 0.3 * e2 + 0.21 * e1 is below 0.15 s, and below 15.72 s in any case.
C36_ThreeFastTicksReachMinimum ==
  [][Ticked =>
       /\ TickAverages
       /\ FastTicks(scd'.log, 3) => scd'.wait_delay = MIN_WAIT_DELAY * Second
       /\ FastTicks(scd'.log, 2) =>
            /\ 100 * scd'.wait_delay < 1572 * Second
            /\ (scd'.wait_delay = MIN_WAIT_DELAY * Second
                  <=> 30 * scd'.log[2] + 21 * scd'.log[1] <= 15 * Second)
    ]_vars

C36_Witness ==
  /\ FastTicks(scd.log, 3)
  /\ scd.wait_delay = MIN_WAIT_DELAY * Second

\* The loop goes to sleep: to_be_stopped.wait(timeout=__wait_delay) starts.
SleepBegins == scd.pc # "wait" /\ scd'.pc = "wait"

\* A step of the loop's query: value_if_ticked_now, then
\* update_delay_with_ema_value.
LoopQueries == scd.pc \in {"value_if_ticked_now", "update_delay"} /\ scd'.pc # scd.pc

\* The delay value_if_ticked_now gives when queried in the current state.
DelayIfQueriedNow == update_delay_with_ema_value(Ema(scd.since, scd.value))

\* The query leaves the stored average and the last-tick time alone.
QueryIsSilent == LoopQueries => scd'.value = scd.value /\ scd'.since = scd.since

\* C37 as stated: the delay of every sleep, the first included, is the one
\* value_if_ticked_now gives just before that sleep, and the query leaves
\* the estimator's average and last-tick time unchanged.
C37_QueriedBeforeEachSleep ==
  [][/\ SleepBegins => scd'.wait_delay = DelayIfQueriedNow
     /\ QueryIsSilent]_vars

\* C37, amended: the loop queries the estimator after each sleep that ran
\* out, before the next cycle; a sleep starts right after the cycle with
\* the delay as it stands (the starting delay, the one of the last query or
\* the one of a later tick); the delay changes in no other way, and the
\* query leaves the estimator's average and last-tick time unchanged.
C37_QueriedAfterEachSleep ==
  [][/\ SleepBegins => scd.pc = "reinit" /\ scd'.wait_delay = scd.wait_delay
     /\ scd'.pc = "value_if_ticked_now" /\ scd.pc # scd'.pc
          => scd.pc = "wait" /\ ~scd.to_be_stopped
     /\ scd.pc = "update_delay" /\ scd'.pc # scd.pc
          => /\ scd'.pc = "top"
             /\ scd'.wait_delay =
                  update_delay_with_ema_value(Ema(scd.ltmp, scd.value))
     /\ scd'.wait_delay # scd.wait_delay
          => \/ scd.pc = "update_delay" /\ scd'.pc = "top"
             \/ /\ scd.main = "tick_delay" /\ scd'.main # scd.main
                /\ scd'.wait_delay = update_delay_with_ema_value(scd.value)
     /\ QueryIsSilent]_vars

\* The first sleep runs with the starting delay although a query would
\* give another one; a later sleep runs with the delay of the last query.
C37_Witness ==
  /\ scd.pc = "wait"
  /\ scd.wait_delay = START_WAIT_DELAY
  /\ DelayIfQueriedNow # START_WAIT_DELAY
  /\ scd.main = "launch"

\* C38: stop() sets the stop signal and returns, whether or not the loop
\* ever observes the signal and sets the completion event.
C38_StopReturns ==
  /\ [](scd.main = "stopping" => scd.to_be_stopped)
  /\ (scd.main = "stopping") ~> (scd.main = "exited")

\* stop() has returned while the loop is still inside its fetch.
C38_Witness ==
  /\ scd.main = "exited"
  /\ scd.to_be_stopped
  /\ ~scd.is_stopped
  /\ scd.pc = "get_diffs"

\* The instances reached from S through the child collections.
RECURSIVE Down(_, _)
Down(h, S) ==
  LET T == S \cup UNION {ChildrenOf(h[a]) : a \in S}
  IN IF T = S THEN S ELSE Down(h, T)

\* C39: at a lock boundary every registered object other than the root is
\* reached from the root through child collections; after rm, a deletion
\* or an eviction of a folder none of its descendants stays registered.
C39_NoOrphans ==
  (fg.op = "idle" /\ scd.phase = 0) =>
     \A i \in Ids \ {ROOT_ID} :
        dictmap[i] # None => dictmap[i] \in Down(heap, {root_folder})

\* The global lock is held exactly inside the with blocks of the loop and
\* of the shell thread.
HeldInsideWith ==
  /\ scd.lock = "loop" <=> scd.pc \in {"get_diffs", "process"}
  /\ scd.lock = "main" <=> scd.main \in {"cmd", "release"}

====
